---- MODULE Spec2Model ----
(***************************************************************************)
(* A model of the gitflow workflow engine of vscode-gitflow: the extension *)
(* commands (extension.ts), the engine operations (flow.ts), the git       *)
(* helpers they call (git.ts, cmd.ts) and the marker file (fs.ts), run     *)
(* against an abstract git repository.                                     *)
(*                                                                         *)
(* Strings the code composes or compares by prefix (branch names, prefixes,*)
(* tag names) are sequences of one-character strings.  A revision is the   *)
(* set of commit ids reachable from it, so "a is merged into b" is tip(a)  *)
(* \subseteq tip(b) and "same revision" is equality of the two sets.       *)
(*                                                                         *)
(* Every `await` of the code is a control point: pc names the backend call *)
(* or the prompt the running operation is suspended on, and one action is  *)
(* the continuation that runs when its result arrives, up to the next      *)
(* await.  A backend call the code starts without awaiting it is a member  *)
(* of bg until a separate action lets it finish.                           *)
(***************************************************************************)
EXTENDS Naturals, Sequences, FiniteSets, TLC

\* ------------------------------------------------------------------ bounds
\* Commit ids available to the repository.
MaxCommits == 6
\* Extension commands the operator runs in one behaviour.
MaxCommands == 2
\* Operator actions outside the extension (edit, commit, checkout, publish).
MaxEnv == 2
\* Lines of a listing handed to parseListing.
MaxLines == 3
\* Initialize commands in a behaviour that starts in a repository without
\* any flow configuration.
MaxInitializes == 3
MaxTerminations == 2
\* Finish commands, and operator actions between them, in a behaviour that
\* resumes an interrupted release/hotfix finish.
MaxResumes == 3
MaxResumeEnv == 4

\* ----------------------------------------------------------------- strings
\* Names are cut to one letter: m master, d develop, o origin, and the
\* prefixes b/ bugfix/, f/ feature/, r/ release/, h/ hotfix/, s/ support/.
Null == <<"null">>              \* JavaScript null/undefined: no value
Detached == <<"HEAD">>          \* rev-parse --abbrev-ref HEAD when detached
UndefinedStr == <<"u", "n", "d", "e", "f", "i", "n", "e", "d">>
Empty == << >>                  \* the empty string

Truthy(s) == s # Null /\ s # Empty

startsWith(s, p) == Len(p) <= Len(s) /\ SubSeq(s, 1, Len(p)) = p

substr(s, n) == SubSeq(s, n + 1, Len(s))

\* config.default_production / config.default_development: "master", "develop"
default_production == <<"m">>
default_development == <<"d">>

\* the default value of each prefix prompt of initialize: `${what}/`
Whats == <<"bugfix", "feature", "release", "hotfix", "support">>

DefaultPrefix(what) ==
  CASE what = "bugfix" -> <<"b", "/">>
    [] what = "feature" -> <<"f", "/">>
    [] what = "release" -> <<"r", "/">>
    [] what = "hotfix" -> <<"h", "/">>
    [] what = "support" -> <<"s", "/">>

\* git.primaryRemote(): 'origin'
primaryRemote == <<"o">>

\* BranchRef.remoteAt: `${remote.name}/${this.name}`
remoteAt(name, remote) == remote \o <<"/">> \o name

\* names the operator types for a feature/bugfix and for a release/hotfix
FeatureNames == {<<"a">>}
VersionNames == {<<"1">>, <<"2">>}
BranchTypes == {"feature", "bugfix"}

ConfigKeys ==
  {"branch.master", "branch.develop", "prefix.bugfix", "prefix.feature",
   "prefix.release", "prefix.hotfix", "prefix.support", "prefix.versiontag"}

\* ------------------------------------------------------------------- state
VARIABLES
  tips,        \* local branches: name -> set of commit ids reachable from it
  rtips,       \* remote-tracking branches of origin: name -> set of commit ids
  head,        \* the checked-out branch (its name), or Detached
  tree,        \* "clean", "dirty", "merging" (conflicted merge), "rebasing"
  mergeHead,   \* the other branch of the merge or rebase in progress, else Null
  tags,        \* local annotated tags: name -> its message and the revision tagged
  rtags,       \* tag names pushed to origin
  gitconfig,   \* git config gitflow.*: key -> value, Null when unset
  nextId,      \* next unused commit id
  gitflowDir,  \* .git/.gitflow: absent, a directory, or a file and its contents
  MERGE_BASE,  \* .git/.gitflow/MERGE_BASE: its contents, Null when absent
  deleteBranchOnFinish,  \* setting gitflow.deleteBranchOnFinish
  deleteRemoteBranches,  \* setting gitflow.deleteRemoteBranches
  cmd,         \* the extension command in progress, "idle" when none
  stage,       \* which step of the command is running (index in Stages(cmd))
  fn,          \* the engine function running under runWrapped
  pc,          \* the await the function is suspended on
  loc,         \* the function's local variables
  err,         \* the error runWrapped is showing: its handler and argument
  bg,          \* backend processes started and never awaited, still running
  log,         \* backend actions issued by the running invocation of fn
  last,        \* how the invocation that has just ended did, and its log
  commandsLeft,
  envLeft,
  stdout,      \* the lines of the listing handed to parseListing
  refs         \* the references parseListing returned for it

repoVars == <<tips, rtips, head, tree, mergeHead, tags, rtags, nextId>>
fsVars == <<gitflowDir, MERGE_BASE>>
settingVars == <<deleteBranchOnFinish, deleteRemoteBranches>>
ctlVars == <<cmd, stage, fn, pc, loc, err>>
histVars == <<log, last>>
budgetVars == <<commandsLeft, envLeft>>
listingVars == <<stdout, refs>>
vars ==
  <<repoVars, gitconfig, fsVars, settingVars, ctlVars, bg, histVars, budgetVars,
    listingVars>>

NoLoc ==
  [branchType |-> "none", branch |-> Null, name |-> Null, master_name |-> Null,
   develop_name |-> Null, what |-> 0, prefix |-> Null, is_clean |-> FALSE,
   tag_message |-> Null]

NoErr == [handler |-> "none", a |-> Null]

NoLast == [fn |-> "none", how |-> "none", at |-> "none", log |-> << >>]

EmptyTips == [b \in {} |-> {}]

NoTags == [t \in {} |-> [message |-> Empty, target |-> {}]]

\* what a path of the file system holds
Absent == [kind |-> "absent", data |-> Null]
Directory == [kind |-> "dir", data |-> Null]
File(data) == [kind |-> "file", data |-> data]

\* ----------------------------------------------------- the git repository
branches == DOMAIN tips
remoteBranches == DOMAIN rtips

\* rev-parse --quiet --verify HEAD exits 0
HasCommits == head = Detached \/ head \in branches

\* git config --get: null on a non-zero exit (flow.ts git.config.get)
configGet(key) == gitconfig[key]

\* git prints branch and tag names in byte order
Code(c) ==
  CASE c = "/" -> 47 [] c = "0" -> 48 [] c = "1" -> 49 [] c = "2" -> 50
    [] c = "a" -> 97 [] c = "b" -> 98 [] c = "d" -> 100 [] c = "e" -> 101
    [] c = "f" -> 102 [] c = "h" -> 104 [] c = "i" -> 105 [] c = "m" -> 109
    [] c = "n" -> 110 [] c = "o" -> 111 [] c = "r" -> 114 [] c = "s" -> 115
    [] c = "u" -> 117 [] c = "v" -> 118 [] OTHER -> 0

RECURSIVE LexLess(_, _)
LexLess(a, b) ==
  IF a = << >> THEN b # << >>
  ELSE IF b = << >> THEN FALSE
  ELSE IF Head(a) = Head(b) THEN LexLess(Tail(a), Tail(b))
  ELSE Code(Head(a)) < Code(Head(b))

\* the lines git prints for a set of names
RECURSIVE Listing(_)
Listing(S) ==
  IF S = {} THEN << >>
  ELSE LET first == CHOOSE x \in S : \A y \in S \ {x} : LexLess(x, y)
       IN <<first>> \o Listing(S \ {first})

\* the property every array has
LengthProperty == <<"l", "e", "n", "g", "t", "h">>

\* `name in acc`, acc an array: true of the indices and of the properties of
\* acc, not of its values
InArray(name, acc) ==
  \/ name = <<"0">> /\ Len(acc) > 0
  \/ name = <<"1">> /\ Len(acc) > 1
  \/ name = <<"2">> /\ Len(acc) > 2
  \/ name = LengthProperty

\* the reduce of parseListing: if (!(name in acc)) acc.push(name)
RECURSIVE reduceListing(_, _)
reduceListing(acc, lines) ==
  IF lines = << >> THEN acc
  ELSE reduceListing(IF InArray(Head(lines), acc) THEN acc ELSE Append(acc, Head(lines)),
                     Tail(lines))

\* String.prototype.trim, on a line and on the whole output (a sequence of
\* lines: the newlines between them are whitespace too)
RECURSIVE trimLeft(_)
trimLeft(s) == IF s # << >> /\ Head(s) = " " THEN trimLeft(Tail(s)) ELSE s

RECURSIVE trimRight(_)
trimRight(s) ==
  IF s # << >> /\ s[Len(s)] = " " THEN trimRight(SubSeq(s, 1, Len(s) - 1)) ELSE s

trim(s) == trimRight(trimLeft(s))

RECURSIVE dropBlankHead(_)
dropBlankHead(lines) ==
  IF lines # << >> /\ trim(Head(lines)) = << >> THEN dropBlankHead(Tail(lines)) ELSE lines

RECURSIVE dropBlankTail(_)
dropBlankTail(lines) ==
  IF lines # << >> /\ trim(lines[Len(lines)]) = << >>
    THEN dropBlankTail(SubSeq(lines, 1, Len(lines) - 1))
    ELSE lines

\* output.trim().split('\n')
trimSplit(output) ==
  LET lines == dropBlankTail(dropBlankHead(output))
      n == Len(lines)
  IN IF n = 0 THEN <<Empty>>
     ELSE IF n = 1 THEN <<trim(lines[1])>>
     ELSE <<trimLeft(lines[1])>> \o SubSeq(lines, 2, n - 1) \o <<trimRight(lines[n])>>

\* the line git prints for a detached HEAD, as the filter spells it
NoBranch == <<"n", "o", " ", "b", "r", "a", "n", "c", "h">>

\* .filter(line => !!line.length) and .filter(line => line !== 'no branch')
NonEmptyLine(line) == Len(line) > 0
NotNoBranch(line) == line # NoBranch

\* line.replace(/^\* /, '')
stripGlyph(line) == IF startsWith(line, <<"*", " ">>) THEN substr(line, 2) ELSE line

\* BranchRef.parseListing
parseListing(output) ==
  LET lines == SelectSeq(SelectSeq(trimSplit(output), NonEmptyLine), NotNoBranch)
      names == [i \in DOMAIN lines |-> stripGlyph(trim(lines[i]))]
  IN reduceListing(<< >>, names)

\* TagRef.parseListing
TagRef_parseListing(output) ==
  LET lines == SelectSeq(trimSplit(output), NonEmptyLine)
      names == [i \in DOMAIN lines |-> trim(lines[i])]
  IN reduceListing(<< >>, names)

\* BranchRef.all(): the local listing followed by the remote one
allBranches ==
  parseListing(Listing(branches)
               \o Listing({remoteAt(b, primaryRemote) : b \in remoteBranches}))

exists_never(name) == FALSE

\* BranchRef.exists()
exists(name) == \E i \in DOMAIN allBranches : allBranches[i] = name

\* TagRef.all() and TagRef.exists()
allTags == TagRef_parseListing(Listing(DOMAIN tags))
tagExists(name) == \E i \in DOMAIN allTags : allTags[i] = name

\* BranchRef.ref(): the revision the name resolves to (rev-parse prints
\* nothing for a name that does not resolve)
ref(name) ==
  IF name \in branches THEN tips[name]
  ELSE IF \E b \in remoteBranches : remoteAt(b, primaryRemote) = name
    THEN rtips[CHOOSE b \in remoteBranches : remoteAt(b, primaryRemote) = name]
    ELSE {}

\* git.isClean(): both diffs exit 0
isClean == tree = "clean"

isMerged_never(subject, base) == FALSE

isMerged_always(subject, base) == TRUE

\* git.isMerged(subject, base): base is listed by branch --contains subject
isMerged(subject, base) ==
  LET contains == {b \in branches : ref(subject) # {} /\ ref(subject) \subseteq tips[b]}
      listed == parseListing(Listing(contains))
  IN \E i \in DOMAIN listed : listed[i] = base

flowEnabled_never == FALSE

flowEnabled_masterOnly == Truthy(configGet("branch.master"))

\* flow.flowEnabled(): !!(master) && !!(develop)
flowEnabled == Truthy(configGet("branch.master")) /\ Truthy(configGet("branch.develop"))

developBranch == configGet("branch.develop")
masterBranch == configGet("branch.master")

SetTip(t, b, s) == [x \in DOMAIN t \cup {b} |-> IF x = b THEN s ELSE t[x]]
DropTip(t, b) == [x \in DOMAIN t \ {b} |-> t[x]]

\* -------------------------------------------------------- control helpers
\* the control points at which the function waits for the operator
Prompts ==
  {"idle", "done", "showErrorMessage", "name_prompt", "init.reinit_prompt",
   "init.master_prompt", "init.develop_prompt", "init.prefix_prompt",
   "init.versiontag_prompt", "rebase.confirm", "finalize.tag_message"}

\* the control points at which it waits for the file system (fs.ts)
FileSystem == {"finish.remove", "finish.writeFile"}

\* at every other control point a git process it awaits is running
Foreground == IF pc \in Prompts \cup FileSystem THEN 0 ELSE 1

Inflight == Foreground + Cardinality(bg)

\* the steps of each command of extension.ts, as the first await of each
Stages(c) ==
  CASE c = "initialize" -> <<"init.flowEnabled">>
    [] c = "featureStart" ->
         <<"requireFlowEnabled", "feature.precheck", "name_prompt", "feature.start">>
    [] c = "featureRebase" -> <<"feature.rebase">>
    [] c = "featureFinish" -> <<"feature.finish">>
    [] c = "releaseStart" ->
         <<"requireFlowEnabled", "release.precheck", "release.guess_new_version",
           "name_prompt", "release.start">>
    [] c = "releaseFinish" -> <<"release.finish">>
    [] c = "hotfixStart" ->
         <<"requireFlowEnabled", "hotfix.guess_new_version", "name_prompt",
           "hotfix.start">>
    [] c = "hotfixFinish" -> <<"hotfix.finish">>

\* the engine function a first await belongs to
FnOf(p) ==
  CASE p = "init.flowEnabled" -> "initialize"
    [] p = "name_prompt" -> "none"
    [] OTHER -> p

Commands ==
  {"initialize", "featureStart", "featureRebase", "featureFinish", "releaseStart",
   "releaseFinish", "hotfixStart", "hotfixFinish"}

\* runWrapped returns to the command: the next step starts, or the command
\* is over (pc = "done": the operator sees the result before the next command)
Resume(how, at) ==
  /\ last' = [fn |-> fn, how |-> how, at |-> at, log |-> log]
  /\ log' = << >>
  /\ err' = NoErr
  /\ cmd' = cmd
  /\ IF stage < Len(Stages(cmd))
       THEN /\ stage' = stage + 1
            /\ pc' = Stages(cmd)[stage + 1]
            /\ fn' = FnOf(Stages(cmd)[stage + 1])
            /\ loc' = [NoLoc EXCEPT !.branchType = loc.branchType, !.name = loc.name]
       ELSE /\ stage' = 0
            /\ pc' = "done"
            /\ fn' = "none"
            /\ loc' = NoLoc

\* the function returns normally
Return == Resume("returned", pc)

\* the function returns because the operator cancelled the prompt at pc
Cancel == Resume("cancelled", pc)

\* fail.error: the exception reaches runWrapped's catch, which shows it
Throw(handler, a) ==
  /\ last' = [fn |-> fn, how |-> "threw", at |-> pc, log |-> log]
  /\ err' = [handler |-> handler, a |-> a]
  /\ pc' = "showErrorMessage"
  /\ UNCHANGED <<cmd, stage, fn, loc, log>>

\* stay in the function: the next await
Goto(p) == pc' = p /\ last' = NoLast /\ UNCHANGED <<cmd, stage, fn, err>>

\* a backend command that changes the repository, its configuration or the
\* remote is recorded in the invocation's log when it is started
Act(op, arg) == [op |-> op, arg |-> arg]
Issue(op, arg) == log' = Append(log, Act(op, arg))
Issue2(op1, arg1, op2, arg2) == log' = Append(Append(log, Act(op1, arg1)), Act(op2, arg2))

\* ------------------------------------------------------------------- Init
\* The extension is activated in the repository of the workspace: one that
\* `git init` has just made, or one gitflow has been set up in with the
\* defaults (production and development at the initial commit, development
\* checked out), with or without both branches on origin.
NoConfig == [k \in ConfigKeys |-> Null]

DefaultConfig ==
  [k \in ConfigKeys |->
     CASE k = "branch.master" -> default_production
       [] k = "branch.develop" -> default_development
       [] k = "prefix.bugfix" -> DefaultPrefix("bugfix")
       [] k = "prefix.feature" -> DefaultPrefix("feature")
       [] k = "prefix.release" -> DefaultPrefix("release")
       [] k = "prefix.hotfix" -> DefaultPrefix("hotfix")
       [] k = "prefix.support" -> DefaultPrefix("support")
       [] k = "prefix.versiontag" -> Empty]

\* the same with the version tag prefix the operator chose at the prompt
VersionedConfig == [DefaultConfig EXCEPT !["prefix.versiontag"] = <<"v">>]

\* a configuration with the roles and the feature prefix only: one written
\* by other tooling or by hand, the other prefixes never set
PartialConfig ==
  [k \in ConfigKeys |->
     IF k \in {"branch.master", "branch.develop", "prefix.feature"}
       THEN DefaultConfig[k]
       ELSE Null]

\* the tags of a repository with releases 0.1, 0.2, 1 and 2 behind it
ReleasedTags ==
  [t \in {<<"0", ".", "1">>, <<"0", ".", "2">>, <<"1">>, <<"2">>} |->
     [message |-> Empty, target |-> {1}]]

\* the tag of a release 1 made under the version tag prefix v
VersionedTags == [t \in {<<"v", "1">>} |-> [message |-> Empty, target |-> {1}]]

InitialTips == [b \in {default_production, default_development} |-> {1}]

\* the settings are the defaults of config.ts (both true), or the operator
\* has switched one off; deleteRemoteBranches is read only under
\* deleteBranchOnFinish
InitSettings ==
  /\ deleteBranchOnFinish \in BOOLEAN
  /\ deleteRemoteBranches \in BOOLEAN
  /\ deleteBranchOnFinish \/ deleteRemoteBranches

\* .git/.gitflow may be there already, and a marker in it: other gitflow
\* tooling keeps its state at the same place
InitMarker ==
  /\ gitflowDir \in {Absent, Directory}
  /\ MERGE_BASE \in {Null, default_development}
  /\ gitflowDir = Absent => MERGE_BASE = Null

InitRepository ==
  \/ /\ tips = EmptyTips
     /\ rtips = EmptyTips
     /\ head = default_production
     /\ gitconfig = NoConfig
     /\ nextId = 1
     /\ deleteBranchOnFinish = TRUE
     /\ deleteRemoteBranches = TRUE
     /\ gitflowDir = Absent
     /\ MERGE_BASE = Null
     /\ tags = NoTags
  \/ /\ tips = InitialTips
     /\ rtips \in {EmptyTips, InitialTips}
     /\ head = default_development
     /\ gitconfig = DefaultConfig
     /\ nextId = 2
     /\ InitSettings
     /\ InitMarker
     /\ tags = NoTags
  \/ /\ tips = InitialTips
     /\ rtips = EmptyTips
     /\ head = default_development
     /\ \/ gitconfig \in {VersionedConfig, PartialConfig} /\ tags = NoTags
        \/ gitconfig = DefaultConfig /\ tags = ReleasedTags
        \/ gitconfig = VersionedConfig /\ tags = VersionedTags
     /\ nextId = 2
     /\ deleteBranchOnFinish = TRUE
     /\ deleteRemoteBranches = TRUE
     /\ gitflowDir = Absent
     /\ MERGE_BASE = Null

Init ==
  /\ InitRepository
  /\ tree = "clean"
  /\ mergeHead = Null
  /\ rtags = {}
  /\ cmd = "idle"
  /\ stage = 0
  /\ fn = "none"
  /\ pc = "idle"
  /\ loc = NoLoc
  /\ err = NoErr
  /\ bg = {}
  /\ log = << >>
  /\ last = NoLast
  /\ commandsLeft = MaxCommands
  /\ envLeft = MaxEnv
  /\ stdout = << >>
  /\ refs = << >>

\* ------------------------------------------------------- backend commands
executeRequired_unchecked(ok) == TRUE

\* cmd.executeRequired returns (and does not throw): result.retc === 0
executeRequired(ok) == ok

Fresh == nextId
CanCommit == nextId <= MaxCommits

\* git checkout <name> can succeed: no merge or rebase is in progress and the
\* name is a local branch, or a branch of origin git creates a local one for
CanCheckout(name) ==
  /\ tree \in {"clean", "dirty"}
  /\ name \in branches \cup remoteBranches

DoCheckout(name) ==
  /\ head' = name
  /\ tips' = IF name \in branches THEN tips ELSE SetTip(tips, name, rtips[name])
  /\ UNCHANGED <<rtips, tree, mergeHead, tags, rtags, nextId>>

\* the exit status of an awaited git checkout <name>: 0 when ok.  With local
\* changes git either carries them over or refuses.
CheckoutResult(name, ok) ==
  /\ ok => CanCheckout(name)
  /\ ~ok => (~CanCheckout(name) \/ tree = "dirty")
  /\ IF ok THEN DoCheckout(name) ELSE UNCHANGED repoVars

\* git merge --no-ff <other> into the checked-out branch.  Nothing to do when
\* other is already contained; otherwise a merge commit, or a conflict that
\* leaves the merge in progress.
MergeTrivial(other) ==
  /\ head \in branches
  /\ other \in branches
  /\ tips[other] \subseteq tips[head]

\* the two histories have each a commit the other has not: only then can a
\* merge or a rebase stop on a conflict
Diverged(a, b) == ~(a \subseteq b) /\ ~(b \subseteq a)

MergeResult(other, ok) ==
  IF head \notin branches \/ other \notin branches \/ tree # "clean"
    THEN ~ok /\ UNCHANGED repoVars
  ELSE IF MergeTrivial(other)
    THEN ok /\ UNCHANGED repoVars
  ELSE IF ok
    THEN /\ CanCommit
         /\ tips' = SetTip(tips, head, tips[head] \cup tips[other] \cup {Fresh})
         /\ nextId' = nextId + 1
         /\ UNCHANGED <<rtips, head, tree, mergeHead, tags, rtags>>
    ELSE /\ Diverged(tips[head], tips[other])
         /\ tree' = "merging"
         /\ mergeHead' = other
         /\ UNCHANGED <<tips, rtips, head, tags, rtags, nextId>>

\* ------------------------------------------------- the operator, the team
\* Between two commands the operator works on the repository directly.
Idle == pc = "idle" /\ envLeft > 0 /\ bg = {}

OperatorEdit ==
  /\ Idle
  /\ HasCommits
  /\ tree = "clean"
  /\ tree' = "dirty"
  /\ envLeft' = envLeft - 1
  /\ UNCHANGED <<tips, rtips, head, mergeHead, tags, rtags, nextId, gitconfig, fsVars,
                 settingVars, listingVars, ctlVars, bg, histVars, commandsLeft>>

\* a commit on the checked-out branch, or on another one from a second
\* work tree
OperatorCommit ==
  /\ Idle
  /\ tree \in {"clean", "dirty"}
  /\ CanCommit
  /\ \E b \in branches :
       /\ tips' = SetTip(tips, b, tips[b] \cup {Fresh})
       /\ tree' = IF b = head THEN "clean" ELSE tree
  /\ nextId' = nextId + 1
  /\ envLeft' = envLeft - 1
  /\ UNCHANGED <<rtips, head, mergeHead, tags, rtags, gitconfig, fsVars, settingVars, listingVars,
                 ctlVars, bg, histVars, commandsLeft>>

\* git checkout <branch>, or git checkout --detach
OperatorCheckout ==
  /\ Idle
  /\ tree = "clean"
  /\ HasCommits
  /\ \E b \in (branches \cup {Detached}) \ {head} : head' = b
  /\ envLeft' = envLeft - 1
  /\ UNCHANGED <<tips, rtips, tree, mergeHead, tags, rtags, nextId, gitconfig, fsVars,
                 settingVars, listingVars, ctlVars, bg, histVars, commandsLeft>>

\* publish the checked-out branch on origin
OperatorPush ==
  /\ Idle
  /\ head \in branches
  /\ IF head \in remoteBranches THEN rtips[head] # tips[head] ELSE TRUE
  /\ rtips' = SetTip(rtips, head, tips[head])
  /\ envLeft' = envLeft - 1
  /\ UNCHANGED <<tips, head, tree, mergeHead, tags, rtags, nextId, gitconfig, fsVars,
                 settingVars, listingVars, ctlVars, bg, histVars, commandsLeft>>

\* somebody else pushes a commit to a branch of origin, and it is fetched
TeammatePush ==
  /\ Idle
  /\ CanCommit
  /\ \E b \in remoteBranches : rtips' = SetTip(rtips, b, rtips[b] \cup {Fresh})
  /\ nextId' = nextId + 1
  /\ envLeft' = envLeft - 1
  /\ UNCHANGED <<tips, head, tree, mergeHead, tags, rtags, gitconfig, fsVars,
                 settingVars, listingVars, ctlVars, bg, histVars, commandsLeft>>

\* ---------------------------------------------------- extension commands
\* the branchType argument the command passes to the engine
TypesOf(c) ==
  CASE c \in {"featureStart", "featureRebase", "featureFinish"} -> BranchTypes
    [] c \in {"releaseStart", "releaseFinish"} -> {"release"}
    [] c \in {"hotfixStart", "hotfixFinish"} -> {"hotfix"}
    [] OTHER -> {"none"}

\* The operator picks a command from the palette (extension.ts setup).
StartCommand ==
  /\ pc = "idle"
  /\ bg = {}
  /\ commandsLeft > 0
  /\ \E c \in Commands : \E bt \in TypesOf(c) :
       /\ cmd' = c
       /\ stage' = 1
       /\ pc' = Stages(c)[1]
       /\ fn' = FnOf(Stages(c)[1])
       /\ loc' = [NoLoc EXCEPT !.branchType = bt]
  /\ err' = NoErr
  /\ log' = << >>
  /\ last' = NoLast
  /\ commandsLeft' = commandsLeft - 1
  /\ UNCHANGED <<repoVars, gitconfig, fsVars, settingVars, listingVars, bg, envLeft>>

\* the command is over, and the processes it left running have exited
CommandEnd ==
  /\ pc = "done"
  /\ bg = {}
  /\ pc' = "idle"
  /\ cmd' = "idle"
  /\ last' = NoLast
  /\ UNCHANGED <<repoVars, gitconfig, fsVars, settingVars, listingVars, stage, fn, loc,
                 err, bg, log,
                 budgetVars>>


\* --------------------------------------------------------- flow.initialize
\* git config <key> <value>
ConfigSet(key, value) == gitconfig' = [gitconfig EXCEPT ![key] = value]

\* if (await flowEnabled()) ... showWarningMessage
initialize_flowEnabled ==
  /\ pc = "init.flowEnabled"
  /\ Goto(IF flowEnabled THEN "init.reinit_prompt" ELSE "init.master_prompt")
  /\ UNCHANGED <<repoVars, gitconfig, fsVars, settingVars, listingVars, loc, bg, log, budgetVars>>

\* if (!do_reinit) return;
initialize_reinit ==
  /\ pc = "init.reinit_prompt"
  /\ \E do_reinit \in BOOLEAN :
       IF do_reinit
         THEN Goto("init.master_prompt") /\ UNCHANGED <<loc, log>>
         ELSE Cancel
  /\ UNCHANGED <<repoVars, gitconfig, fsVars, settingVars, listingVars, bg, budgetVars>>

\* what the operator may answer to the branch name prompts
BranchNameInputs == {default_production, default_development, Null}

\* const master_name = await showInputBox(...); if (!master_name) return;
initialize_master_name ==
  /\ pc = "init.master_prompt"
  /\ \E master_name \in {default_production, Null} :
       IF ~Truthy(master_name)
         THEN Cancel
         ELSE /\ Goto("init.develop_prompt")
              /\ loc' = [loc EXCEPT !.master_name = master_name]
              /\ UNCHANGED log
  /\ UNCHANGED <<repoVars, gitconfig, fsVars, settingVars, listingVars, bg, budgetVars>>

initialize_develop_name_unchecked ==
  /\ pc = "init.develop_prompt"
  /\ \E develop_name \in BranchNameInputs :
       IF ~Truthy(develop_name)
         THEN Cancel
         ELSE /\ Goto("init.rev_parse")
              /\ loc' = [loc EXCEPT !.develop_name = develop_name]
              /\ UNCHANGED log
  /\ UNCHANGED <<repoVars, gitconfig, fsVars, settingVars, listingVars, bg, budgetVars>>

\* const develop_name = ...; if (!develop_name) return;
\* if (master_name === develop_name) fail.error(...); then rev-parse HEAD
initialize_develop_name ==
  /\ pc = "init.develop_prompt"
  /\ \E develop_name \in BranchNameInputs :
       IF ~Truthy(develop_name)
         THEN Cancel
         ELSE IF loc.master_name = develop_name
           THEN Throw("none", Null)
           ELSE /\ Goto("init.rev_parse")
                /\ loc' = [loc EXCEPT !.develop_name = develop_name]
                /\ UNCHANGED log
  /\ UNCHANGED <<repoVars, gitconfig, fsVars, settingVars, listingVars, bg, budgetVars>>

\* if (rev-parse --quiet --verify HEAD fails) symbolic-ref ...; else
\* develop.exists()
initialize_rev_parse ==
  /\ pc = "init.rev_parse"
  /\ IF ~HasCommits
       THEN Goto("init.symbolic_ref") /\ Issue("symbolic-ref", loc.master_name)
       ELSE Goto("init.develop_exists") /\ UNCHANGED log
  /\ UNCHANGED <<repoVars, gitconfig, fsVars, settingVars, listingVars, loc, bg, budgetVars>>

\* await executeRequired(symbolic-ref HEAD refs/heads/<master>); then commit
initialize_symbolic_ref ==
  /\ pc = "init.symbolic_ref"
  /\ head' = loc.master_name
  /\ Goto("init.commit")
  /\ Issue("commit", loc.master_name)
  /\ UNCHANGED <<tips, rtips, tree, mergeHead, tags, rtags, nextId, gitconfig, fsVars,
                 settingVars, listingVars, loc, bg, budgetVars>>

\* await executeRequired(commit --allow-empty -m 'Initial commit')
initialize_commit ==
  /\ pc = "init.commit"
  /\ CanCommit
  /\ tips' = SetTip(tips, head, {Fresh})
  /\ nextId' = nextId + 1
  /\ Goto("init.develop_exists")
  /\ UNCHANGED <<rtips, head, tree, mergeHead, tags, rtags, gitconfig, fsVars,
                 settingVars, listingVars, loc, bg, log, budgetVars>>

\* a backend process the code starts without awaiting it
BranchProc(name, from) == [kind |-> "branch", name |-> name, from |-> from]
PushTagsProc == [kind |-> "push --tags", name |-> Null, from |-> Null]
PullProc(a) == [kind |-> "pull", name |-> a, from |-> Null]

\* if (!(await develop.exists())) { if (await remote_develop.exists())
\*   cmd.executeRequired(branch ...) else cmd.executeRequired(branch --no-track
\*   ...); await git.checkout(develop); }
\* Neither branch command is awaited: the checkout is started while it runs.
initialize_develop_exists ==
  /\ pc = "init.develop_exists"
  /\ IF ~exists(loc.develop_name)
       THEN /\ bg' = bg \cup
                 {BranchProc(loc.develop_name,
                             IF exists(remoteAt(loc.develop_name, primaryRemote))
                               THEN remoteAt(loc.develop_name, primaryRemote)
                               ELSE loc.master_name)}
            /\ Goto("init.checkout")
            /\ Issue2("branch", loc.develop_name, "checkout", loc.develop_name)
            /\ UNCHANGED loc
       ELSE /\ Goto("init.prefix_prompt")
            /\ loc' = [loc EXCEPT !.what = 1]
            /\ UNCHANGED <<bg, log>>
  /\ UNCHANGED <<repoVars, gitconfig, fsVars, settingVars, listingVars, budgetVars>>

initialize_checkout_skipped ==
  /\ pc = "init.checkout"
  /\ Goto("init.prefix_prompt")
  /\ loc' = [loc EXCEPT !.what = 1]
  /\ UNCHANGED <<repoVars, gitconfig, fsVars, settingVars, listingVars, bg, log, budgetVars>>

\* await git.checkout(develop): executeRequired throws on a non-zero exit
initialize_checkout ==
  /\ pc = "init.checkout"
  /\ \E ok \in BOOLEAN :
       /\ CheckoutResult(loc.develop_name, ok)
       /\ IF executeRequired(ok)
            THEN /\ Goto("init.prefix_prompt")
                 /\ loc' = [loc EXCEPT !.what = 1]
                 /\ UNCHANGED log
            ELSE Throw("none", Null)
  /\ UNCHANGED <<gitconfig, fsVars, settingVars, listingVars, bg, budgetVars>>

initialize_prefix_unchecked ==
  /\ pc = "init.prefix_prompt"
  /\ \E prefix \in {DefaultPrefix(Whats[loc.what]), Empty} :
       /\ Goto("init.prefix_set")
       /\ loc' = [loc EXCEPT !.prefix = prefix]
       /\ Issue("config", <<Whats[loc.what]>>)
  /\ UNCHANGED <<repoVars, gitconfig, fsVars, settingVars, listingVars, bg, budgetVars>>

\* for (const what of [...]) { const prefix = await showInputBox(...);
\*   if (!prefix) return; await git.config.set(...) }
initialize_prefix ==
  /\ pc = "init.prefix_prompt"
  /\ \E prefix \in {DefaultPrefix(Whats[loc.what]), Null} :
       IF ~Truthy(prefix)
         THEN Cancel
         ELSE /\ Goto("init.prefix_set")
              /\ loc' = [loc EXCEPT !.prefix = prefix]
              /\ Issue("config", <<Whats[loc.what]>>)
  /\ UNCHANGED <<repoVars, gitconfig, fsVars, settingVars, listingVars, bg, budgetVars>>

initialize_prefix_set ==
  /\ pc = "init.prefix_set"
  /\ ConfigSet("prefix." \o Whats[loc.what], loc.prefix)
  /\ IF loc.what < Len(Whats)
       THEN /\ Goto("init.prefix_prompt")
            /\ loc' = [loc EXCEPT !.what = loc.what + 1, !.prefix = Null]
       ELSE /\ Goto("init.versiontag_prompt")
            /\ loc' = [loc EXCEPT !.what = 0, !.prefix = Null]
  /\ UNCHANGED <<repoVars, fsVars, settingVars, listingVars, bg, log, budgetVars>>

\* what the operator may answer to the version tag prompt: a prefix, nothing
\* (the prefix is optional), or the prompt cancelled (showInputBox resolves
\* to undefined)
VersionTagInputs == {<<"v">>, Empty, Null}

\* const version_tag_prefix = await showInputBox(...);
\* if (version_tag_prefix === null) return;
\* await git.config.set('gitflow.prefix.versiontag', version_tag_prefix);
\* A cancelled prompt is undefined, which is not === null: the code goes on
\* and hands undefined to child_process.spawn, which, depending on the
\* runtime, passes it to git as the string 'undefined' or rejects it (the
\* rejection has a message, and runWrapped shows it).
initialize_version_tag_prefix ==
  /\ pc = "init.versiontag_prompt"
  /\ \E version_tag_prefix \in VersionTagInputs, spawned \in BOOLEAN :
       IF version_tag_prefix # Null \/ spawned
         THEN /\ Goto("init.versiontag_set")
              /\ loc' = [loc EXCEPT !.prefix = IF version_tag_prefix = Null
                                                 THEN UndefinedStr
                                                 ELSE version_tag_prefix]
              /\ Issue("config", <<"versiontag">>)
         ELSE Throw("none", Null)
  /\ UNCHANGED <<repoVars, gitconfig, fsVars, settingVars, listingVars, bg, budgetVars>>

\* the versiontag config write returns; git.config.set(branch.master) starts
initialize_versiontag_set ==
  /\ pc = "init.versiontag_set"
  /\ ConfigSet("prefix.versiontag", loc.prefix)
  /\ Goto("init.master_set")
  /\ loc' = [loc EXCEPT !.prefix = Null]
  /\ Issue("config", <<"master">>)
  /\ UNCHANGED <<repoVars, fsVars, settingVars, listingVars, bg, budgetVars>>

\* await git.config.set('gitflow.branch.master', master.name);
initialize_master_set ==
  /\ pc = "init.master_set"
  /\ ConfigSet("branch.master", loc.master_name)
  /\ Goto("init.develop_set")
  /\ Issue("config", <<"develop">>)
  /\ UNCHANGED <<repoVars, fsVars, settingVars, listingVars, loc, bg, budgetVars>>

\* await git.config.set('gitflow.branch.develop', develop.name);
initialize_develop_set ==
  /\ pc = "init.develop_set"
  /\ ConfigSet("branch.develop", loc.develop_name)
  /\ Goto("init.assert")
  /\ UNCHANGED <<repoVars, fsVars, settingVars, listingVars, loc, bg, log, budgetVars>>

\* console.assert(await flowEnabled()); showInformationMessage(...)
initialize_assert ==
  /\ pc = "init.assert"
  /\ Return
  /\ UNCHANGED <<repoVars, gitconfig, fsVars, settingVars, listingVars, bg, budgetVars>>

\* --------------------------------------------------- requireFlowEnabled
\* if (!(await flowEnabled())) fail.error({handlers: [{title: 'Enable now',
\*   cb: flow.initialize}]})
requireFlowEnabled ==
  /\ pc = "requireFlowEnabled"
  /\ IF flowEnabled THEN Return ELSE Throw("init", Null)
  /\ UNCHANGED <<repoVars, gitconfig, fsVars, settingVars, listingVars, bg, budgetVars>>

\* ------------------------------------------------------------ flow.feature
\* feature.prefix(branchType)
prefix(branchType) == configGet("prefix." \o branchType)

\* git.currentBranch(): null when HEAD is detached
currentBranch == IF head = Detached THEN Null ELSE head

NotInitialized_never(branchType) == FALSE

\* feature.current(): the checked-out branch is of the kind
NotInitialized(branchType) == ~Truthy(prefix(branchType))
OnBranchOfKind(branchType) ==
  /\ currentBranch # Null
  /\ startsWith(currentBranch, prefix(branchType))

requireEqual_always(a, b) == TRUE

requireEqual_never(a, b) == FALSE

\* git.requireEqual(a, b, offer_pull) passes: aref === bref
requireEqual(a, b) == ref(a) = ref(b)

requireClean_skipped == TRUE

\* git.requireClean() passes
requireClean == isClean

\* feature.precheck()
feature_precheck ==
  /\ pc = "feature.precheck"
  /\ LET local_develop == developBranch
         remote_develop == remoteAt(local_develop, primaryRemote)
     IN IF exists(remote_develop) /\ ~requireEqual(local_develop, remote_develop)
          THEN Throw("pull", local_develop)
          ELSE Return
  /\ UNCHANGED <<repoVars, gitconfig, fsVars, settingVars, listingVars, bg, budgetVars>>

\* the command's showInputBox for the name; if (!name) return;
NameInputs(c) == IF c = "featureStart" THEN FeatureNames ELSE VersionNames

name_prompt ==
  /\ pc = "name_prompt"
  /\ \E name \in NameInputs(cmd) \cup {Null} :
       IF ~Truthy(name)
         THEN /\ pc' = "done"
              /\ stage' = 0
              /\ loc' = NoLoc
              /\ last' = NoLast
              /\ UNCHANGED <<cmd, fn, err, log>>
         ELSE /\ pc' = Stages(cmd)[stage + 1]
              /\ fn' = FnOf(Stages(cmd)[stage + 1])
              /\ stage' = stage + 1
              /\ loc' = [loc EXCEPT !.name = name]
              /\ last' = NoLast
              /\ UNCHANGED <<cmd, err, log>>
  /\ UNCHANGED <<repoVars, gitconfig, fsVars, settingVars, listingVars, bg, budgetVars>>

\* git checkout -b <new> <from>
CanCheckoutNew(new, from) ==
  /\ tree \in {"clean", "dirty"}
  /\ from \in branches
  /\ new \notin branches

CheckoutNewResult(new, from, ok) ==
  /\ ok => CanCheckoutNew(new, from)
  /\ ~ok => (~CanCheckoutNew(new, from) \/ tree = "dirty")
  /\ IF ok
       THEN /\ tips' = SetTip(tips, new, tips[from])
            /\ head' = new
            /\ UNCHANGED <<rtips, tree, mergeHead, tags, rtags, nextId>>
       ELSE UNCHANGED repoVars

\* feature.start(feature_name, branchType), up to checkout -b
feature_start ==
  /\ pc = "feature.start"
  /\ LET new_branch == prefix(loc.branchType) \o loc.name
     IN IF ~flowEnabled
          THEN Throw("init", Null)
        ELSE IF NotInitialized(loc.branchType)
          THEN Throw("init", Null)
        ELSE IF exists(new_branch)
          THEN Throw("none", Null)
        ELSE /\ Goto("feature.start.checkout")
             /\ loc' = [loc EXCEPT !.branch = new_branch]
             /\ Issue("checkout -b", new_branch)
  /\ UNCHANGED <<repoVars, gitconfig, fsVars, settingVars, listingVars, bg, budgetVars>>

feature_start_checkout ==
  /\ pc = "feature.start.checkout"
  /\ \E ok \in BOOLEAN :
       /\ CheckoutNewResult(loc.branch, developBranch, ok)
       /\ IF executeRequired(ok) THEN Return ELSE Throw("none", Null)
  /\ UNCHANGED <<gitconfig, fsVars, settingVars, listingVars, bg, budgetVars>>

\* git rebase <onto> <branch>, branch being checked out: nothing to do when
\* onto is contained, a fast-forward when the branch has no commit of its
\* own; otherwise its commits are rewritten on top of onto, or the rebase
\* stops on a conflict, HEAD detached
RebaseTrivial(branch, onto) == ~Diverged(tips[branch], tips[onto])

RebaseResult(branch, onto, ok) ==
  IF branch \notin branches \/ onto \notin branches \/ tree # "clean"
    THEN ~ok /\ UNCHANGED repoVars
  ELSE IF RebaseTrivial(branch, onto)
    THEN /\ ok
         /\ tips' = SetTip(tips, branch, tips[branch] \cup tips[onto])
         /\ UNCHANGED <<rtips, head, tree, mergeHead, tags, rtags, nextId>>
  ELSE IF ok
    THEN /\ CanCommit
         /\ tips' = SetTip(tips, branch, tips[onto] \cup {Fresh})
         /\ nextId' = nextId + 1
         /\ UNCHANGED <<rtips, head, tree, mergeHead, tags, rtags>>
    ELSE /\ tree' = "rebasing"
         /\ mergeHead' = branch
         /\ head' = Detached
         /\ UNCHANGED <<tips, rtips, tags, rtags, nextId>>

\* feature.rebase(branchType): requireFlowEnabled, current(), and the
\* warning when a remote branch exists that is not merged into develop
feature_rebase ==
  /\ pc = "feature.rebase"
  /\ IF ~flowEnabled
       THEN Throw("init", Null)
     ELSE IF NotInitialized(loc.branchType)
       THEN Throw("init", Null)
     ELSE IF ~OnBranchOfKind(loc.branchType)
       THEN Throw("none", Null)
     ELSE /\ loc' = [loc EXCEPT !.branch = currentBranch]
          /\ LET remote == remoteAt(currentBranch, primaryRemote)
             IN Goto(IF exists(remote) /\ ~isMerged(remote, developBranch)
                       THEN "rebase.confirm"
                       ELSE "rebase.requireClean")
          /\ UNCHANGED log
  /\ UNCHANGED <<repoVars, gitconfig, fsVars, settingVars, listingVars, bg, budgetVars>>

\* const do_rebase = !!(await showWarningMessage(...)); if (!do_rebase) return;
feature_rebase_confirm ==
  /\ pc = "rebase.confirm"
  /\ \E do_rebase \in BOOLEAN :
       IF do_rebase
         THEN Goto("rebase.requireClean") /\ UNCHANGED <<loc, log>>
         ELSE Cancel
  /\ UNCHANGED <<repoVars, gitconfig, fsVars, settingVars, listingVars, bg, budgetVars>>

\* await git.requireClean(); const result = await git.rebase(...)
feature_rebase_requireClean ==
  /\ pc = "rebase.requireClean"
  /\ IF ~requireClean
       THEN Throw("none", Null)
       ELSE Goto("rebase.rebase") /\ Issue("rebase", loc.branch) /\ UNCHANGED loc
  /\ UNCHANGED <<repoVars, gitconfig, fsVars, settingVars, listingVars, bg, budgetVars>>

\* git.rebase: cmd.executeRequired(rebase <onto> <branch>)
git_rebase(branch, onto, ok) == RebaseResult(branch, onto, ok)

\* the result of git.rebase arrives.  git.rebase calls executeRequired,
\* which throws on a non-zero exit: the result the function gets to see has
\* retc 0, so `if (result.retc)` and the rebase --abort under it never run.
feature_rebase_result ==
  /\ pc = "rebase.rebase"
  /\ \E ok \in BOOLEAN :
       /\ git_rebase(loc.branch, developBranch, ok)
       /\ IF executeRequired(ok) THEN Return ELSE Throw("none", Null)
  /\ UNCHANGED <<gitconfig, fsVars, settingVars, listingVars, bg, budgetVars>>

\* ------------------------------------------------------ feature.finish
\* const merge_base_file = path.join(gitflowDir, 'MERGE_BASE');
\* fs.exists(merge_base_file)
merge_base_file_exists == MERGE_BASE # Null

\* the remote checks of feature.finish: the branch that has diverged from
\* its remote counterpart, Null when none has
FinishDiverged(feature_branch) ==
  LET remote_branch == remoteAt(feature_branch, primaryRemote)
      develop == developBranch
      remote_develop == remoteAt(develop, primaryRemote)
  IN IF exists(remote_branch) /\ ~requireEqual(feature_branch, remote_branch)
       THEN feature_branch
     ELSE IF exists(remote_develop) /\ ~requireEqual(develop, remote_develop)
       THEN develop
     ELSE Null

\* await git.requireClean(); the remote checks; await git.checkout(develop)
FinishChecks ==
  IF ~requireClean
    THEN Throw("none", Null)
  ELSE IF FinishDiverged(loc.branch) # Null
    THEN Throw("pull", FinishDiverged(loc.branch))
  ELSE /\ Goto("finish.checkout")
       /\ Issue("checkout", developBranch)
       /\ UNCHANGED loc

EnterCleanup_skipped == Return

\* finishCleanup(branch, branchType), up to its first backend action
EnterCleanup ==
  IF deleteBranchOnFinish
    THEN IF deleteRemoteBranches /\ exists(remoteAt(loc.branch, primaryRemote))
           THEN /\ Goto("cleanup.push")
                /\ Issue("push :", loc.branch)
                /\ UNCHANGED loc
           ELSE /\ Goto("cleanup.branch_d")
                /\ Issue("branch -d", loc.branch)
                /\ UNCHANGED loc
    ELSE Return

\* feature.finish(branchType): current(), isClean(), and the marker
\* the messages of the two failures feature.finish raises before its checks
MustCheckout == <<"You must checkout the branch you wish to finish">>
MergeConflicts == <<"You have merge conflicts!">>

feature_finish ==
  /\ pc = "feature.finish"
  /\ IF NotInitialized(loc.branchType)
       THEN Throw("init", Null)
     ELSE IF ~OnBranchOfKind(loc.branchType)
       THEN Throw("none", MustCheckout)
     ELSE IF merge_base_file_exists
       THEN IF isClean
              THEN /\ Goto("finish.remove")
                   /\ loc' = [loc EXCEPT !.branch = currentBranch,
                                         !.name = MERGE_BASE,
                                         !.is_clean = TRUE]
                   /\ UNCHANGED log
              ELSE Throw("none", MergeConflicts)
       ELSE /\ Goto("finish.requireClean")
            /\ loc' = [loc EXCEPT !.branch = currentBranch, !.is_clean = isClean]
            /\ UNCHANGED log
  /\ UNCHANGED <<repoVars, gitconfig, fsVars, settingVars, listingVars, bg, budgetVars>>

\* await fs.remove(merge_base_file);
\* if (await git.isMerged(feature_branch, merge_base)) {
\*   await finishCleanup(...); return; }
feature_finish_remove ==
  /\ pc = "finish.remove"
  /\ MERGE_BASE' = Null
  /\ IF isMerged(loc.branch, loc.name)
       THEN Goto("cleanup.asserts") /\ UNCHANGED <<loc, log>>
       ELSE Goto("finish.requireClean") /\ UNCHANGED <<loc, log>>
  /\ UNCHANGED <<repoVars, gitconfig, gitflowDir, settingVars, listingVars, bg, budgetVars>>

feature_finish_requireClean ==
  /\ pc = "finish.requireClean"
  /\ FinishChecks
  /\ UNCHANGED <<repoVars, gitconfig, fsVars, settingVars, listingVars, bg, budgetVars>>

\* await git.checkout(develop); then cmd.execute(merge --no-ff <feature>)
feature_finish_checkout ==
  /\ pc = "finish.checkout"
  /\ \E ok \in BOOLEAN :
       /\ CheckoutResult(developBranch, ok)
       /\ IF executeRequired(ok)
            THEN Goto("finish.merge") /\ Issue("merge", developBranch) /\ UNCHANGED loc
            ELSE Throw("none", Null)
  /\ UNCHANGED <<gitconfig, fsVars, settingVars, listingVars, bg, budgetVars>>

\* where feature.finish records the conflicted merge: fs.writeFile(gitflowDir,
\* develop.name) names the directory, not the marker file in it
conflict_file == "gitflowDir"

\* if (result.retc) { await fs.writeFile(...); fail.error(...) }
\* else finishCleanup
feature_finish_merge ==
  /\ pc = "finish.merge"
  /\ \E ok \in BOOLEAN :
       /\ MergeResult(loc.branch, ok)
       /\ IF ok
            THEN Goto("cleanup.asserts") /\ UNCHANGED <<loc, log>>
            ELSE Goto("finish.writeFile") /\ UNCHANGED <<loc, log>>
  /\ UNCHANGED <<gitconfig, fsVars, settingVars, listingVars, bg, budgetVars>>

\* fs.writeFile(path, data): replaces a file, fails on a directory (EISDIR)
WriteFile(path, data) ==
  IF path = "gitflowDir"
    THEN /\ gitflowDir.kind # "dir"
         /\ gitflowDir' = File(data)
         /\ UNCHANGED MERGE_BASE
    ELSE /\ gitflowDir.kind = "dir"
         /\ MERGE_BASE' = data
         /\ UNCHANGED gitflowDir

CanWriteFile(path) ==
  IF path = "gitflowDir" THEN gitflowDir.kind # "dir" ELSE gitflowDir.kind = "dir"

\* the write returns or rejects; either way the operation ends in an error
feature_finish_writeFile ==
  /\ pc = "finish.writeFile"
  /\ IF CanWriteFile(conflict_file)
       THEN WriteFile(conflict_file, developBranch)
       ELSE UNCHANGED fsVars
  /\ Throw("none", Null)
  /\ UNCHANGED <<repoVars, gitconfig, settingVars, listingVars, bg, budgetVars>>

\* console.assert(await branch.exists()); console.assert(await git.isClean());
finishCleanup ==
  /\ pc = "cleanup.asserts"
  /\ EnterCleanup
  /\ UNCHANGED <<repoVars, gitconfig, fsVars, settingVars, listingVars, bg, budgetVars>>

\* git push origin :<name>: the network decides; the branch of origin is gone
PushDeleteResult(name, ok) ==
  /\ ok => name \in remoteBranches
  /\ IF ok
       THEN /\ rtips' = DropTip(rtips, name)
            /\ UNCHANGED <<tips, head, tree, mergeHead, tags, rtags, nextId>>
       ELSE UNCHANGED repoVars

\* await git.push(origin, ':refs/heads/<branch>'); then branch -d
finishCleanup_push ==
  /\ pc = "cleanup.push"
  /\ \E ok \in BOOLEAN :
       /\ PushDeleteResult(loc.branch, ok)
       /\ IF ok
            THEN Goto("cleanup.branch_d") /\ Issue("branch -d", loc.branch)
                 /\ UNCHANGED loc
            ELSE Throw("none", Null)
  /\ UNCHANGED <<gitconfig, fsVars, settingVars, listingVars, bg, budgetVars>>

\* git branch -d <name>: refused for the checked-out branch and for a branch
\* not merged into HEAD
CanDeleteBranch(name) ==
  /\ name \in branches
  /\ name # head
  /\ head \in branches
  /\ tips[name] \subseteq tips[head]

BranchDeleteResult(name, ok) ==
  /\ ok <=> CanDeleteBranch(name)
  /\ IF ok
       THEN /\ tips' = DropTip(tips, name)
            /\ UNCHANGED <<rtips, head, tree, mergeHead, tags, rtags, nextId>>
       ELSE UNCHANGED repoVars

\* await cmd.executeRequired(branch -d <branch>)
finishCleanup_branch_d ==
  /\ pc = "cleanup.branch_d"
  /\ \E ok \in BOOLEAN :
       /\ BranchDeleteResult(loc.branch, ok)
       /\ IF executeRequired(ok) THEN Return ELSE Throw("none", Null)
  /\ UNCHANGED <<gitconfig, fsVars, settingVars, listingVars, bg, budgetVars>>


\* ------------------------------------------------------------ flow.release
\* release.current() / hotfix.current(): branches.find(br =>
\* br.name.startsWith(prefix)), Null when there is none
current_none(kind) == Null

current(kind) ==
  LET found == {i \in DOMAIN allBranches : startsWith(allBranches[i], prefix(kind))}
  IN IF found = {} THEN Null
     ELSE allBranches[CHOOSE i \in found : \A j \in found : i <= j]

\* release.precheck(): requireClean, then requireEqual without the offer
release_precheck ==
  /\ pc = "release.precheck"
  /\ LET develop == developBranch
         remote_develop == remoteAt(develop, primaryRemote)
     IN IF ~requireClean
          THEN Throw("none", Null)
        ELSE IF exists(remote_develop) /\ ~requireEqual(develop, remote_develop)
          THEN Throw("none", Null)
        ELSE Return
  /\ UNCHANGED <<repoVars, gitconfig, fsVars, settingVars, listingVars, bg, budgetVars>>

\* release.guess_new_version() / hotfix.guess_new_version(): reads the tags,
\* changes nothing; its result is the value the name prompt starts with
guess_new_version ==
  /\ pc \in {"release.guess_new_version", "hotfix.guess_new_version"}
  /\ Return
  /\ UNCHANGED <<repoVars, gitconfig, fsVars, settingVars, listingVars, bg, budgetVars>>

\* release.start(name), up to checkout -b
release_start ==
  /\ pc = "release.start"
  /\ IF ~flowEnabled
       THEN Throw("init", Null)
     ELSE IF NotInitialized("release")
       THEN Throw("init", Null)
     ELSE IF current("release") # Null
       THEN Throw("none", Null)
     ELSE IF tagExists(loc.name)
       THEN Throw("none", Null)
     ELSE /\ Goto("release.start.checkout")
          /\ loc' = [loc EXCEPT !.branch = prefix("release") \o loc.name]
          /\ Issue("checkout -b", prefix("release") \o loc.name)
  /\ UNCHANGED <<repoVars, gitconfig, fsVars, settingVars, listingVars, bg, budgetVars>>

release_start_checkout_versioned ==
  /\ pc = "release.start.checkout"
  /\ \E ok \in BOOLEAN :
       /\ CheckoutNewResult(loc.branch, developBranch, ok)
       /\ IF executeRequired(ok) THEN Return ELSE Throw("none", Null)
  /\ ConfigSet("prefix.versiontag", loc.name)
  /\ UNCHANGED <<fsVars, settingVars, listingVars, bg, budgetVars>>

\* await cmd.executeRequired(checkout -b <new_branch> <develop>)
release_start_checkout ==
  /\ pc = "release.start.checkout"
  /\ \E ok \in BOOLEAN :
       /\ CheckoutNewResult(loc.branch, developBranch, ok)
       /\ IF executeRequired(ok) THEN Return ELSE Throw("none", Null)
  /\ UNCHANGED <<gitconfig, fsVars, settingVars, listingVars, bg, budgetVars>>

\* ------------------------------------------------------------- flow.hotfix
\* hotfix.start(name), up to checkout -b
hotfix_start ==
  /\ pc = "hotfix.start"
  /\ LET master == masterBranch
         remote_master == remoteAt(master, primaryRemote)
         new_branch == prefix("hotfix") \o loc.name
     IN IF ~flowEnabled
          THEN Throw("init", Null)
        ELSE IF NotInitialized("hotfix")
          THEN Throw("init", Null)
        ELSE IF current("hotfix") # Null
          THEN Throw("none", Null)
        ELSE IF ~requireClean
          THEN Throw("none", Null)
        ELSE IF exists(remote_master) /\ ~requireEqual(master, remote_master)
          THEN Throw("none", Null)
        ELSE IF tagExists(loc.name)
          THEN Throw("none", Null)
        ELSE IF exists(new_branch)
          THEN Throw("none", Null)
        ELSE /\ Goto("hotfix.start.checkout")
             /\ loc' = [loc EXCEPT !.branch = new_branch]
             /\ Issue("checkout -b", new_branch)
  /\ UNCHANGED <<repoVars, gitconfig, fsVars, settingVars, listingVars, bg, budgetVars>>

hotfix_start_checkout ==
  /\ pc = "hotfix.start.checkout"
  /\ \E ok \in BOOLEAN :
       /\ CheckoutNewResult(loc.branch, masterBranch, ok)
       /\ IF executeRequired(ok) THEN Return ELSE Throw("none", Null)
  /\ UNCHANGED <<gitconfig, fsVars, settingVars, listingVars, bg, budgetVars>>

\* --------------------------------- release.finish and hotfix.finish
\* tagPrefix() || ''
tag_prefix == IF Truthy(configGet("prefix.versiontag")) THEN configGet("prefix.versiontag") ELSE Empty

release_name_whole(branch, rel_prefix) == tag_prefix \o branch

\* tag_prefix.concat(branch.name.substr(rel_prefix.length))
release_name(branch, rel_prefix) == tag_prefix \o substr(branch, Len(rel_prefix))

finalizeWithBranch_unchecked(branch) ==
  IF ~requireClean
    THEN Throw("none", Null)
    ELSE /\ Goto("finalize.tag_message")
         /\ loc' = [loc EXCEPT !.branch = branch, !.prefix = prefix(loc.branchType)]
         /\ UNCHANGED log

\* finalizeWithBranch(rel_prefix, branch, reenter), up to the tag message
finalizeWithBranch(branch) ==
  LET master == masterBranch
      remote_master == remoteAt(master, primaryRemote)
      develop == developBranch
      remote_develop == remoteAt(develop, primaryRemote)
  IN IF currentBranch = Null
       THEN Throw("none", Null)
     ELSE IF currentBranch # branch
       THEN Throw("checkout", branch)
     ELSE IF ~requireClean
       THEN Throw("none", Null)
     ELSE IF exists(remote_master) /\ ~requireEqual(master, remote_master)
       THEN Throw("none", Null)
     ELSE IF exists(remote_develop) /\ ~requireEqual(develop, remote_develop)
       THEN Throw("none", Null)
     ELSE /\ Goto("finalize.tag_message")
          /\ loc' = [loc EXCEPT !.branch = branch, !.prefix = prefix(loc.branchType)]
          /\ UNCHANGED log

\* release.finish() / hotfix.finish()
finish(kind) ==
  /\ loc.branchType = kind
  /\ IF ~flowEnabled
       THEN Throw("init", Null)
     ELSE IF NotInitialized(kind)
       THEN Throw("init", Null)
     ELSE IF current(kind) = Null
       THEN Throw("none", Null)
     ELSE finalizeWithBranch(current(kind))
  /\ UNCHANGED <<repoVars, gitconfig, fsVars, settingVars, listingVars, bg, budgetVars>>

release_finish == pc = "release.finish" /\ finish("release")

hotfix_finish == pc = "hotfix.finish" /\ finish("hotfix")

\* what the operator may answer to the tag message prompt: cancelled
\* (undefined), left empty, or a message
TagMessageInputs == {Null, Empty, <<"t">>}

\* if (tag_message === undefined) return; await git.checkout(master)
finalize_tag_message ==
  /\ pc = "finalize.tag_message"
  /\ \E tag_message \in TagMessageInputs :
       IF tag_message = Null
         THEN Cancel
         ELSE /\ Goto("finalize.checkout_master")
              /\ Issue("checkout", masterBranch)
              /\ loc' = [loc EXCEPT !.tag_message = tag_message]
  /\ UNCHANGED <<repoVars, gitconfig, fsVars, settingVars, listingVars, bg, budgetVars>>

\* if (!(await git.isMerged(branch, master))) await git.merge(branch);
\* then the tag
finalize_checkout_master ==
  /\ pc = "finalize.checkout_master"
  /\ \E ok \in BOOLEAN :
       /\ CheckoutResult(masterBranch, ok)
       /\ IF ~executeRequired(ok)
            THEN Throw("none", Null)
          ELSE IF ~isMerged(loc.branch, masterBranch)
            THEN Goto("finalize.merge_master") /\ Issue("merge", masterBranch)
                 /\ UNCHANGED loc
          ELSE Goto("finalize.tag")
               /\ Issue("tag", release_name(loc.branch, loc.prefix))
               /\ UNCHANGED loc
  /\ UNCHANGED <<gitconfig, fsVars, settingVars, listingVars, bg, budgetVars>>

\* git.merge is cmd.executeRequired: a failed merge throws, and nothing in
\* finalizeWithBranch catches it or touches .git/.gitflow
finalize_merge_master ==
  /\ pc = "finalize.merge_master"
  /\ \E ok \in BOOLEAN :
       /\ MergeResult(loc.branch, ok)
       /\ IF executeRequired(ok)
            THEN Goto("finalize.tag")
                 /\ Issue("tag", release_name(loc.branch, loc.prefix))
                 /\ UNCHANGED loc
            ELSE Throw("none", Null)
  /\ UNCHANGED <<gitconfig, fsVars, settingVars, listingVars, bg, budgetVars>>

\* git tag -m <message> <name> <master>: an annotated tag on the revision of
\* master; refused when the tag exists
TagResult(name, message, master, ok) ==
  /\ ok <=> name \notin DOMAIN tags
  /\ tags' = IF ok
              THEN SetTip(tags, name, [message |-> message, target |-> ref(master)])
              ELSE tags
  /\ UNCHANGED <<tips, rtips, head, tree, mergeHead, rtags, nextId>>

\* await cmd.executeRequired(tag ...); await git.checkout(develop)
finalize_tag ==
  /\ pc = "finalize.tag"
  /\ \E ok \in BOOLEAN :
       /\ TagResult(release_name(loc.branch, loc.prefix), loc.tag_message, masterBranch, ok)
       /\ IF executeRequired(ok)
            THEN Goto("finalize.checkout_develop")
                 /\ Issue("checkout", developBranch)
                 /\ UNCHANGED loc
            ELSE Throw("none", Null)
  /\ UNCHANGED <<gitconfig, fsVars, settingVars, listingVars, bg, budgetVars>>

\* if (config.deleteBranchOnFinish) branch -d, else the operation is over
finalize_merged ==
  IF deleteBranchOnFinish
    THEN Goto("finalize.branch_d") /\ Issue("branch -d", loc.branch) /\ UNCHANGED loc
    ELSE Return

\* if (!(await git.isMerged(branch, develop))) await git.merge(branch);
finalize_checkout_develop ==
  /\ pc = "finalize.checkout_develop"
  /\ \E ok \in BOOLEAN :
       /\ CheckoutResult(developBranch, ok)
       /\ IF ~executeRequired(ok)
            THEN Throw("none", Null)
          ELSE IF ~isMerged(loc.branch, developBranch)
            THEN Goto("finalize.merge_develop") /\ Issue("merge", developBranch)
                 /\ UNCHANGED loc
          ELSE finalize_merged
  /\ UNCHANGED <<gitconfig, fsVars, settingVars, listingVars, bg, budgetVars>>

finalize_merge_develop ==
  /\ pc = "finalize.merge_develop"
  /\ \E ok \in BOOLEAN :
       /\ MergeResult(loc.branch, ok)
       /\ IF executeRequired(ok) THEN finalize_merged ELSE Throw("none", Null)
  /\ UNCHANGED <<gitconfig, fsVars, settingVars, listingVars, bg, budgetVars>>

\* git push origin <name>: the network decides, and origin takes only a
\* fast-forward
PushResult(name, ok) ==
  /\ ok => name \in branches
  /\ ok => IF name \in remoteBranches THEN rtips[name] \subseteq tips[name] ELSE TRUE
  /\ IF ok
       THEN /\ rtips' = SetTip(rtips, name, tips[name])
            /\ UNCHANGED <<tips, head, tree, mergeHead, tags, rtags, nextId>>
       ELSE UNCHANGED repoVars

\* await cmd.executeRequired(branch -d ...); if (config.deleteRemoteBranches
\* && await remote_develop.exists() && await remote_master.exists())
\*   await git.push(remote, develop);
finalize_branch_d ==
  /\ pc = "finalize.branch_d"
  /\ \E ok \in BOOLEAN :
       /\ BranchDeleteResult(loc.branch, ok)
       /\ IF ~executeRequired(ok)
            THEN Throw("none", Null)
          ELSE IF /\ deleteRemoteBranches
                  /\ exists(remoteAt(developBranch, primaryRemote))
                  /\ exists(remoteAt(masterBranch, primaryRemote))
            THEN Goto("finalize.push_develop") /\ Issue("push", developBranch)
                 /\ UNCHANGED loc
          ELSE Return
  /\ UNCHANGED <<gitconfig, fsVars, settingVars, listingVars, bg, budgetVars>>

\* await git.push(remote, develop); await git.push(remote, master);
finalize_push_develop ==
  /\ pc = "finalize.push_develop"
  /\ \E ok \in BOOLEAN :
       /\ PushResult(developBranch, ok)
       /\ IF ok
            THEN Goto("finalize.push_master") /\ Issue("push", masterBranch)
                 /\ UNCHANGED loc
            ELSE Throw("none", Null)
  /\ UNCHANGED <<gitconfig, fsVars, settingVars, listingVars, bg, budgetVars>>

\* await git.push(remote, master);
\* cmd.executeRequired(push --tags origin);     (not awaited)
\* if (await remote_branch.exists()) ...
finalize_push_master ==
  /\ pc = "finalize.push_master"
  /\ \E ok \in BOOLEAN :
       /\ PushResult(masterBranch, ok)
       /\ IF ok
            THEN /\ bg' = bg \cup {PushTagsProc}
                 /\ Goto("finalize.remote_branch_exists")
                 /\ Issue("push --tags", primaryRemote)
                 /\ UNCHANGED loc
            ELSE Throw("none", Null) /\ UNCHANGED bg
  /\ UNCHANGED <<gitconfig, fsVars, settingVars, listingVars, budgetVars>>

\* the listing remote_branch.exists() asked for arrives
finalize_remote_branch_exists ==
  /\ pc = "finalize.remote_branch_exists"
  /\ IF exists(remoteAt(loc.branch, primaryRemote))
       THEN Goto("finalize.push_delete") /\ Issue("push :", loc.branch)
            /\ UNCHANGED loc
       ELSE Return
  /\ UNCHANGED <<repoVars, gitconfig, fsVars, settingVars, listingVars, bg, budgetVars>>

\* await git.push(remote, BranchRef.fromName(':' + branch.name));
finalize_push_delete ==
  /\ pc = "finalize.push_delete"
  /\ \E ok \in BOOLEAN :
       /\ PushDeleteResult(loc.branch, ok)
       /\ IF ok THEN Return ELSE Throw("none", Null)
  /\ UNCHANGED <<gitconfig, fsVars, settingVars, listingVars, bg, budgetVars>>

\* ------------------------------------------------------------- runWrapped
\* showErrorMessage resolves to undefined: return null
runWrapped_dismiss ==
  /\ pc = "showErrorMessage"
  /\ Resume("failed", last.at)
  /\ UNCHANGED <<repoVars, gitconfig, fsVars, settingVars, listingVars, bg, budgetVars>>

\* 'Enable now' / 'Initialize': return await runWrapped(flow.initialize)
runWrapped_initialize ==
  /\ pc = "showErrorMessage"
  /\ err.handler = "init"
  /\ pc' = "init.flowEnabled"
  /\ fn' = "initialize"
  /\ err' = NoErr
  /\ log' = << >>
  /\ loc' = [NoLoc EXCEPT !.branchType = loc.branchType, !.name = loc.name]
  /\ last' = NoLast
  /\ UNCHANGED <<cmd, stage>>
  /\ UNCHANGED <<repoVars, gitconfig, fsVars, settingVars, listingVars, bg, budgetVars>>

\* 'Pull now': cb: async function() { git.pull(primaryRemote(), a); }
\* The pull is started and neither awaited nor returned: the handler is over
\* at once and the command goes on while git pull runs.
runWrapped_pull ==
  /\ pc = "showErrorMessage"
  /\ err.handler = "pull"
  /\ bg' = bg \cup {PullProc(err.a)}
  /\ Resume("handled", last.at)
  /\ UNCHANGED <<repoVars, gitconfig, fsVars, settingVars, listingVars, budgetVars>>

\* 'Checkout <branch> and continue.': await git.checkout(branch);
runWrapped_checkout ==
  /\ pc = "showErrorMessage"
  /\ err.handler = "checkout"
  /\ pc' = "cb.checkout"
  /\ fn' = "cb"
  /\ err' = NoErr
  /\ log' = <<Act("checkout", err.a)>>
  /\ loc' = [loc EXCEPT !.branch = err.a]
  /\ last' = NoLast
  /\ UNCHANGED <<cmd, stage>>
  /\ UNCHANGED <<repoVars, gitconfig, fsVars, settingVars, listingVars, bg, budgetVars>>

cb_checkout_returns ==
  /\ pc = "cb.checkout"
  /\ \E ok \in BOOLEAN :
       /\ CheckoutResult(loc.branch, ok)
       /\ IF executeRequired(ok) THEN Return ELSE Throw("none", Null)
  /\ UNCHANGED <<gitconfig, fsVars, settingVars, listingVars, bg, budgetVars>>

cb_checkout_reenters ==
  /\ pc = "cb.checkout"
  /\ pc' = Stages(cmd)[stage]
  /\ fn' = FnOf(Stages(cmd)[stage])
  /\ loc' = [NoLoc EXCEPT !.branchType = loc.branchType]
  /\ log' = << >>
  /\ last' = [fn |-> fn, how |-> "returned", at |-> pc, log |-> log]
  /\ UNCHANGED <<cmd, stage, err>>
  /\ UNCHANGED <<repoVars, gitconfig, fsVars, settingVars, listingVars, bg, budgetVars>>

\* ... await reenter(): release.finish or hotfix.finish runs again
cb_checkout ==
  /\ pc = "cb.checkout"
  /\ \E ok \in BOOLEAN :
       /\ CheckoutResult(loc.branch, ok)
       /\ IF executeRequired(ok)
            THEN /\ pc' = Stages(cmd)[stage]
                 /\ fn' = FnOf(Stages(cmd)[stage])
                 /\ loc' = [NoLoc EXCEPT !.branchType = loc.branchType]
                 /\ log' = << >>
                 /\ last' = [fn |-> fn, how |-> "returned", at |-> pc, log |-> log]
                 /\ UNCHANGED <<cmd, stage, err>>
            ELSE Throw("none", Null)
  /\ UNCHANGED <<gitconfig, fsVars, settingVars, listingVars, bg, budgetVars>>

\* ----------------------------------------------- processes never awaited
\* git branch [--no-track] <name> <from>
BgBranch(p) ==
  IF p.name \notin branches /\ ref(p.from) # {}
    THEN /\ tips' = SetTip(tips, p.name, ref(p.from))
         /\ UNCHANGED <<rtips, head, tree, mergeHead, tags, rtags, nextId>>
    ELSE UNCHANGED repoVars

\* git push --tags origin: the network decides
BgPushTags(ok) ==
  /\ rtags' = IF ok THEN rtags \cup DOMAIN tags ELSE rtags
  /\ UNCHANGED <<tips, rtips, head, tree, mergeHead, tags, nextId>>

\* git pull origin <a>: origin's <a> is merged into the checked-out branch,
\* whichever that is
BgPull(p, ok) ==
  LET theirs == IF p.name \in remoteBranches THEN rtips[p.name] ELSE {}
  IN IF ~ok \/ theirs = {} \/ head \notin branches \/ tree \notin {"clean", "dirty"}
       THEN UNCHANGED repoVars
     ELSE IF ~Diverged(tips[head], theirs)
       THEN /\ tips' = SetTip(tips, head, tips[head] \cup theirs)
            /\ UNCHANGED <<rtips, head, tree, mergeHead, tags, rtags, nextId>>
     ELSE \/ /\ CanCommit
             /\ tips' = SetTip(tips, head, tips[head] \cup theirs \cup {Fresh})
             /\ nextId' = nextId + 1
             /\ UNCHANGED <<rtips, head, tree, mergeHead, tags, rtags>>
          \/ /\ tree = "clean"
             /\ tree' = "merging"
             /\ mergeHead' = remoteAt(p.name, primaryRemote)
             /\ UNCHANGED <<tips, rtips, head, tags, rtags, nextId>>

\* a process nobody waits for exits
BgFinish ==
  /\ \E p \in bg, ok \in BOOLEAN :
       /\ bg' = bg \ {p}
       /\ CASE p.kind = "branch" -> BgBranch(p)
            [] p.kind = "push --tags" -> BgPushTags(ok)
            [] p.kind = "pull" -> BgPull(p, ok)
  /\ UNCHANGED <<gitconfig, fsVars, settingVars, listingVars, ctlVars, histVars, budgetVars>>

\* ------------------------------------------------------------------- Next
Next ==
  \/ StartCommand
  \/ CommandEnd
  \/ OperatorEdit
  \/ OperatorCommit
  \/ OperatorCheckout
  \/ OperatorPush
  \/ TeammatePush
  \/ initialize_flowEnabled
  \/ initialize_reinit
  \/ initialize_master_name
  \/ initialize_develop_name
  \/ initialize_rev_parse
  \/ initialize_symbolic_ref
  \/ initialize_commit
  \/ initialize_develop_exists
  \/ initialize_checkout
  \/ initialize_prefix
  \/ initialize_prefix_set
  \/ initialize_version_tag_prefix
  \/ initialize_versiontag_set
  \/ initialize_master_set
  \/ initialize_develop_set
  \/ initialize_assert
  \/ requireFlowEnabled
  \/ feature_precheck
  \/ name_prompt
  \/ feature_start
  \/ feature_start_checkout
  \/ feature_rebase
  \/ feature_rebase_confirm
  \/ feature_rebase_requireClean
  \/ feature_rebase_result
  \/ feature_finish
  \/ feature_finish_remove
  \/ feature_finish_requireClean
  \/ feature_finish_checkout
  \/ feature_finish_merge
  \/ feature_finish_writeFile
  \/ finishCleanup
  \/ finishCleanup_push
  \/ finishCleanup_branch_d
  \/ release_precheck
  \/ guess_new_version
  \/ release_start
  \/ release_start_checkout
  \/ hotfix_start
  \/ hotfix_start_checkout
  \/ release_finish
  \/ hotfix_finish
  \/ finalize_tag_message
  \/ finalize_checkout_master
  \/ finalize_merge_master
  \/ finalize_tag
  \/ finalize_checkout_develop
  \/ finalize_merge_develop
  \/ finalize_branch_d
  \/ finalize_push_develop
  \/ finalize_push_master
  \/ finalize_remote_branch_exists
  \/ finalize_push_delete
  \/ runWrapped_dismiss
  \/ runWrapped_initialize
  \/ runWrapped_pull
  \/ runWrapped_checkout
  \/ cb_checkout
  \/ BgFinish

Spec == Init /\ [][Next]_vars

\* ------------------------------------------------- the listing parsers
\* parseListing is a function of its argument alone. This specification
\* hands it listings of up to MaxLines lines, in a repository nothing else
\* happens in.
ListingLines ==
  {<<"a">>, <<"b">>, <<"0">>, <<"*", " ", "a">>, <<" ", "a">>, NoBranch,
   <<" ">> \o NoBranch, LengthProperty}

Listings == UNION {[1..n -> ListingLines] : n \in 0..MaxLines}

ParseInit ==
  /\ tips = EmptyTips
  /\ rtips = EmptyTips
  /\ head = default_production
  /\ gitconfig = NoConfig
  /\ nextId = 1
  /\ deleteBranchOnFinish = TRUE
  /\ deleteRemoteBranches = TRUE
  /\ gitflowDir = Absent
  /\ MERGE_BASE = Null
  /\ tree = "clean"
  /\ mergeHead = Null
  /\ tags = NoTags
  /\ rtags = {}
  /\ cmd = "idle"
  /\ stage = 0
  /\ fn \in {"BranchRef.parseListing", "TagRef.parseListing"}
  /\ pc = "parseListing"
  /\ loc = NoLoc
  /\ err = NoErr
  /\ bg = {}
  /\ log = << >>
  /\ last = NoLast
  /\ commandsLeft = 0
  /\ envLeft = 0
  /\ stdout \in Listings
  /\ refs = << >>

BranchRef_parseListing ==
  /\ fn = "BranchRef.parseListing"
  /\ pc = "parseListing"
  /\ refs' = parseListing(stdout)
  /\ pc' = "parsed"
  /\ UNCHANGED <<repoVars, gitconfig, fsVars, settingVars, cmd, stage, fn, loc, err, bg,
                 histVars, budgetVars, stdout>>

TagRef_parseListingCall ==
  /\ fn = "TagRef.parseListing"
  /\ pc = "parseListing"
  /\ refs' = TagRef_parseListing(stdout)
  /\ pc' = "parsed"
  /\ UNCHANGED <<repoVars, gitconfig, fsVars, settingVars, cmd, stage, fn, loc, err, bg,
                 histVars, budgetVars, stdout>>

ParseNext ==
  \/ BranchRef_parseListing
  \/ TagRef_parseListingCall

ParseSpec == ParseInit /\ [][ParseNext]_vars

\* --------------------------------------------------- version guessing
\* guess_new_version is a function of the latest tag (what `git describe`
\* prints for the newest tagged commit, nothing when there is no tag) and of
\* the configured version tag prefix.
DigitValue(c) ==
  CASE c = "0" -> 0 [] c = "1" -> 1 [] c = "2" -> 2 [] c = "3" -> 3 [] c = "4" -> 4
    [] c = "5" -> 5 [] c = "6" -> 6 [] c = "7" -> 7 [] c = "8" -> 8 [] c = "9" -> 9

DigitChars == <<"0", "1", "2", "3", "4", "5", "6", "7", "8", "9">>

IsDigit(c) == \E i \in DOMAIN DigitChars : DigitChars[i] = c

\* Number(s), s a run of digits
RECURSIVE ToNumber(_)
ToNumber(s) ==
  IF s = << >> THEN 0
  ELSE 10 * ToNumber(SubSeq(s, 1, Len(s) - 1)) + DigitValue(s[Len(s)])

\* String(n)
RECURSIVE StringOf(_)
StringOf(n) ==
  IF n < 10 THEN <<DigitChars[n + 1]>>
  ELSE StringOf(n \div 10) \o <<DigitChars[(n % 10) + 1]>>

\* s.split('.')
RECURSIVE split(_)
split(s) ==
  IF \A i \in DOMAIN s : s[i] # "."
    THEN <<s>>
    ELSE LET dot == CHOOSE i \in DOMAIN s : s[i] = "." /\ \A j \in 1..(i - 1) : s[j] # "."
         IN <<SubSeq(s, 1, dot - 1)>> \o split(SubSeq(s, dot + 1, Len(s)))

\* parts.join('.')
RECURSIVE join(_)
join(parts) ==
  IF Len(parts) = 1 THEN parts[1]
  ELSE parts[1] \o <<".">> \o join(Tail(parts))

\* s.match(/^\d+\.\d+\.\d+$/)
matchVersion(s) ==
  LET parts == split(s)
  IN /\ Len(parts) = 3
     /\ \A i \in 1..3 : parts[i] # << >> /\ \A j \in DOMAIN parts[i] : IsDigit(parts[i][j])

\* s.replace(pattern, ''), pattern a string: its first occurrence, wherever
\* it is, is removed
replace(s, pattern) ==
  LET at == {i \in 1..(Len(s) - Len(pattern) + 1) :
               SubSeq(s, i, i + Len(pattern) - 1) = pattern}
  IN IF at = {} THEN s
     ELSE LET i == CHOOSE k \in at : \A j \in at : k <= j
          IN SubSeq(s, 1, i - 1) \o SubSeq(s, i + Len(pattern), Len(s))

DefaultVersion == <<"0", ".", "0", ".", "0">>

\* tag.latest() || '0.0.0', then the prefix replaced
latestVersion(describe) ==
  replace(IF describe = << >> THEN DefaultVersion ELSE trim(describe[1]), tag_prefix)

\* flow.release.guess_new_version
release_guess_new_version(describe) ==
  LET version_tag == latestVersion(describe)
      version_numbers == split(version_tag)
  IN IF matchVersion(version_tag)
       THEN join(<<version_numbers[1], StringOf(ToNumber(version_numbers[2]) + 1), <<"0">>>>)
       ELSE version_tag

\* flow.hotfix.guess_new_version
hotfix_guess_new_version(describe) ==
  LET version_tag == latestVersion(describe)
      version_numbers == split(version_tag)
  IN IF matchVersion(version_tag)
       THEN join(<<version_numbers[1], version_numbers[2],
                   StringOf(ToNumber(version_numbers[3]) + 1)>>)
       ELSE version_tag

LatestTags ==
  {<<"v", "1", ".", "2", ".", "3">>, <<"1", ".", "2", ".", "3">>,
   <<"v", "1", ".", "2">>, <<"v", "0", ".", "9", ".", "9">>,
   <<"v", "2", ".", "0", "1", ".", "1", "9">>, <<"r", "e", "v", "1">>,
   <<"v", "1", ".", "2", ".", "3", "a">>, <<"1", "0", ".", "0", ".", "0">>,
   <<"v", "3">>, <<"0", ".", "0", ".", "9">>}

VersionTagPrefixes == {Null, Empty, <<"v">>}

GuessInit ==
  /\ tips = InitialTips
  /\ rtips = EmptyTips
  /\ head = default_development
  /\ \E versiontag \in VersionTagPrefixes :
       gitconfig = [DefaultConfig EXCEPT !["prefix.versiontag"] = versiontag]
  /\ nextId = 2
  /\ deleteBranchOnFinish = TRUE
  /\ deleteRemoteBranches = TRUE
  /\ gitflowDir = Absent
  /\ MERGE_BASE = Null
  /\ tree = "clean"
  /\ mergeHead = Null
  /\ tags = NoTags
  /\ rtags = {}
  /\ cmd \in {"releaseStart", "hotfixStart"}
  /\ stage = 0
  /\ fn = IF cmd = "releaseStart" THEN "release.guess_new_version"
                                  ELSE "hotfix.guess_new_version"
  /\ pc = fn
  /\ loc = NoLoc
  /\ err = NoErr
  /\ bg = {}
  /\ log = << >>
  /\ last = NoLast
  /\ commandsLeft = 0
  /\ envLeft = 0
  /\ stdout \in {<< >>} \cup {<<t>> : t \in LatestTags}
  /\ refs = << >>

\* the guess is the value the name prompt starts with
release_guess ==
  /\ pc = "release.guess_new_version"
  /\ loc' = [loc EXCEPT !.name = release_guess_new_version(stdout)]
  /\ pc' = "guessed"
  /\ UNCHANGED <<repoVars, gitconfig, fsVars, settingVars, listingVars, cmd, stage, fn, err,
                 bg, histVars, budgetVars>>

hotfix_guess ==
  /\ pc = "hotfix.guess_new_version"
  /\ loc' = [loc EXCEPT !.name = hotfix_guess_new_version(stdout)]
  /\ pc' = "guessed"
  /\ UNCHANGED <<repoVars, gitconfig, fsVars, settingVars, listingVars, cmd, stage, fn, err,
                 bg, histVars, budgetVars>>

GuessNext ==
  \/ release_guess
  \/ hotfix_guess

GuessSpec == GuessInit /\ [][GuessNext]_vars

\* ----------------------------- initialize in an unconfigured repository
\* The repository `git init` has just made, or one with a first commit on
\* the default production branch, and no flow configuration; the operator
\* runs initialize again and again, cancels prompts, meets failures.
UnconfiguredInit ==
  /\ \/ tips = EmptyTips /\ nextId = 1
     \/ tips = [b \in {default_production} |-> {1}] /\ nextId = 2
  /\ rtips = EmptyTips
  /\ head = default_production
  /\ gitconfig = NoConfig
  /\ tags = NoTags
  /\ rtags = {}
  /\ tree = "clean"
  /\ mergeHead = Null
  /\ gitflowDir = Absent
  /\ MERGE_BASE = Null
  /\ deleteBranchOnFinish = TRUE
  /\ deleteRemoteBranches = TRUE
  /\ cmd = "idle"
  /\ stage = 0
  /\ fn = "none"
  /\ pc = "idle"
  /\ loc = NoLoc
  /\ err = NoErr
  /\ bg = {}
  /\ log = << >>
  /\ last = NoLast
  /\ commandsLeft = MaxInitializes
  /\ envLeft = 0
  /\ stdout = << >>
  /\ refs = << >>

\* the operator picks 'Gitflow: Initialize repository for gitflow'
InitializeCommand == StartCommand /\ cmd' = "initialize"

InitializeNext ==
  \/ InitializeCommand
  \/ CommandEnd
  \/ initialize_flowEnabled
  \/ initialize_reinit
  \/ initialize_master_name
  \/ initialize_develop_name
  \/ initialize_rev_parse
  \/ initialize_symbolic_ref
  \/ initialize_commit
  \/ initialize_develop_exists
  \/ initialize_checkout
  \/ initialize_prefix
  \/ initialize_prefix_set
  \/ initialize_version_tag_prefix
  \/ initialize_versiontag_set
  \/ initialize_master_set
  \/ initialize_develop_set
  \/ initialize_assert
  \/ runWrapped_dismiss
  \/ BgFinish

InitializeSpec == UnconfiguredInit /\ [][InitializeNext]_vars

\* ------------------------------------- resuming a release/hotfix finish
\* A release (or hotfix) branch is checked out and ready to be finished;
\* production and development have both moved since it was started, so
\* either merge of the finish can stop on a conflict.  The operator runs
\* finish, resolves what stopped it, and runs finish again.
ResumeSubjects == {DefaultPrefix("release") \o <<"1">>, DefaultPrefix("hotfix") \o <<"1">>}

ResumeTips(subject) ==
  [b \in {default_production, default_development, subject} |->
     IF b = default_production THEN {1, 2}
     ELSE IF b = default_development THEN {1, 3}
     ELSE {1, 4}]

ResumeInit ==
  /\ \E subject \in ResumeSubjects :
       /\ tips = ResumeTips(subject)
       /\ head = subject
       /\ rtips \in {EmptyTips, ResumeTips(subject)}
  /\ nextId = 5
  /\ tree = "clean"
  /\ mergeHead = Null
  /\ tags = NoTags
  /\ rtags = {}
  /\ gitconfig = DefaultConfig
  /\ gitflowDir = Absent
  /\ MERGE_BASE = Null
  /\ deleteBranchOnFinish = TRUE
  /\ deleteRemoteBranches = TRUE
  /\ cmd = "idle"
  /\ stage = 0
  /\ fn = "none"
  /\ pc = "idle"
  /\ loc = NoLoc
  /\ err = NoErr
  /\ bg = {}
  /\ log = << >>
  /\ last = NoLast
  /\ commandsLeft = MaxResumes
  /\ envLeft = MaxResumeEnv
  /\ stdout = << >>
  /\ refs = << >>

\* the operator picks 'Gitflow: Release: finish' or 'Gitflow: Hotfix: finish'
FinishCommand == StartCommand /\ cmd' \in {"releaseFinish", "hotfixFinish"}

\* the operator resolves the conflicts of the merge in progress and commits
OperatorResolve ==
  /\ Idle
  /\ tree = "merging"
  /\ head \in branches
  /\ mergeHead \in branches
  /\ CanCommit
  /\ tips' = SetTip(tips, head, tips[head] \cup tips[mergeHead] \cup {Fresh})
  /\ nextId' = nextId + 1
  /\ tree' = "clean"
  /\ mergeHead' = Null
  /\ envLeft' = envLeft - 1
  /\ UNCHANGED <<rtips, head, tags, rtags, gitconfig, fsVars, settingVars, listingVars,
                 ctlVars, bg, histVars, commandsLeft>>

ResumeNext ==
  \/ FinishCommand
  \/ CommandEnd
  \/ OperatorResolve
  \/ OperatorCheckout
  \/ OperatorPush
  \/ release_finish
  \/ hotfix_finish
  \/ finalize_tag_message
  \/ finalize_checkout_master
  \/ finalize_merge_master
  \/ finalize_tag
  \/ finalize_checkout_develop
  \/ finalize_merge_develop
  \/ finalize_branch_d
  \/ finalize_push_develop
  \/ finalize_push_master
  \/ finalize_remote_branch_exists
  \/ finalize_push_delete
  \/ runWrapped_dismiss
  \/ runWrapped_checkout
  \/ cb_checkout
  \/ BgFinish

ResumeSpec == ResumeInit /\ [][ResumeNext]_vars

\* --------------------------------------- remediation chains of one command
\* runWrapped runs the command, shows what it threw, and when the operator
\* picks a handler runs that handler's callback through runWrapped again.
\* Release/hotfix finish is the command whose handler re-enters it; it is
\* run here in a repository that may also lack the gitflow configuration
\* ('Initialize') and whose branches may differ from origin's ('Pull now').
TerminationRemotes(subject) ==
  {EmptyTips, ResumeTips(subject), [ResumeTips(subject) EXCEPT ![default_development] = {1}]}

TerminationInit ==
  /\ \E subject \in ResumeSubjects :
       /\ tips = ResumeTips(subject)
       /\ head \in {subject, default_development}
       /\ rtips \in TerminationRemotes(subject)
  /\ nextId = 5
  /\ tree = "clean"
  /\ mergeHead = Null
  /\ tags = NoTags
  /\ rtags = {}
  /\ gitconfig \in {DefaultConfig, NoConfig}
  /\ gitflowDir = Absent
  /\ MERGE_BASE = Null
  /\ deleteBranchOnFinish = TRUE
  /\ deleteRemoteBranches = TRUE
  /\ cmd = "idle"
  /\ stage = 0
  /\ fn = "none"
  /\ pc = "idle"
  /\ loc = NoLoc
  /\ err = NoErr
  /\ bg = {}
  /\ log = << >>
  /\ last = NoLast
  /\ commandsLeft = MaxTerminations
  /\ envLeft = 0
  /\ stdout = << >>
  /\ refs = << >>

\* the operator picks a command whose errors carry a handler: the starts and
\* finishes offer 'Initialize', feature start offers 'Pull now', release and
\* hotfix finish offer 'Checkout ... and continue.'
RemediableCommand ==
  StartCommand /\ cmd' \in {"featureStart", "releaseFinish", "hotfixFinish"}

\* The repository has commits and is not configured when 'Initialize' runs, so
\* initialize neither asks to re-initialize nor creates the first commit.
TerminationNext ==
  \/ RemediableCommand
  \/ CommandEnd
  \/ requireFlowEnabled
  \/ feature_precheck
  \/ name_prompt
  \/ feature_start
  \/ feature_start_checkout
  \/ release_finish
  \/ hotfix_finish
  \/ finalize_tag_message
  \/ finalize_checkout_master
  \/ finalize_merge_master
  \/ finalize_tag
  \/ finalize_checkout_develop
  \/ finalize_merge_develop
  \/ finalize_branch_d
  \/ finalize_push_develop
  \/ finalize_push_master
  \/ finalize_remote_branch_exists
  \/ finalize_push_delete
  \/ runWrapped_dismiss
  \/ runWrapped_checkout
  \/ runWrapped_pull
  \/ runWrapped_initialize
  \/ cb_checkout
  \/ initialize_flowEnabled
  \/ initialize_master_name
  \/ initialize_develop_name
  \/ initialize_rev_parse
  \/ initialize_develop_exists
  \/ initialize_prefix
  \/ initialize_prefix_set
  \/ initialize_version_tag_prefix
  \/ initialize_versiontag_set
  \/ initialize_master_set
  \/ initialize_develop_set
  \/ initialize_assert
  \/ BgFinish

\* a command is under way: one of its awaits, or the error message, is pending
Running == pc # "idle"

\* where a command can be: the awaits of the engine's functions, the error
\* message of runWrapped, and the end of the command
Awaits ==
  {"requireFlowEnabled", "feature.precheck", "name_prompt", "feature.start",
   "feature.start.checkout", "release.finish", "hotfix.finish",
   "finalize.tag_message", "finalize.checkout_master", "finalize.merge_master",
   "finalize.tag", "finalize.checkout_develop", "finalize.merge_develop",
   "finalize.branch_d", "finalize.push_develop", "finalize.push_master",
   "finalize.remote_branch_exists", "finalize.push_delete", "cb.checkout",
   "init.flowEnabled", "init.master_prompt", "init.develop_prompt",
   "init.rev_parse", "init.develop_exists", "init.prefix_prompt",
   "init.prefix_set", "init.versiontag_prompt", "init.versiontag_set",
   "init.master_set", "init.develop_set", "init.assert", "showErrorMessage",
   "done", "idle"}

\* the backend call or the prompt the command is waiting for returns: the
\* command is at another await, shows an error, or is over
Returns == Running /\ pc' \in Awaits

\* every backend call and every prompt of the running command returns
TerminationSpec == TerminationInit /\ [][TerminationNext]_vars /\ WF_pc(Returns)

\* ================================================================= claims
Ops(l) == {l[i].op : i \in DOMAIN l}

FinalizeFns == {"release.finish", "hotfix.finish"}

\* an error is showing that the running function threw at the await `at`
Failed(f, at) == pc = "showErrorMessage" /\ fn = f /\ last.at = at

\* C1: when the merge of feature/bugfix finish exits non-zero, the marker
\* holding the development branch's name is present at the place the next
\* finish looks for it.
C1_MarkerWhereRead ==
  Failed("feature.finish", "finish.writeFile") => MERGE_BASE = developBranch

\* C2: a finish that finds the marker, a clean tree and the checked-out
\* branch merged into the branch the marker names deletes the marker and goes
\* on with the cleanup, and issues neither a checkout nor a merge: its only
\* backend actions are those of the cleanup.
ResumeStep ==
  /\ (/\ pc = "finish.remove"
      /\ loc.name \in branches
      /\ tips[loc.branch] \subseteq tips[loc.name])
     => (/\ pc' = "cleanup.asserts"
         /\ fn' = "feature.finish"
         /\ MERGE_BASE' = Null
         /\ log' = << >>)
  /\ (/\ pc \in {"cleanup.asserts", "cleanup.push", "cleanup.branch_d"}
      /\ fn' = fn)
     => Ops(log') \ Ops(log) \subseteq {"push :", "branch -d"}

FinalizeStep ==
  fn \in FinalizeFns =>
    /\ UNCHANGED fsVars
    /\ (pc = "finalize.merge_master" /\ tree' = "merging")
       => (/\ pc' = "showErrorMessage"
           /\ err'.handler = "none"
           /\ head' = masterBranch
           /\ mergeHead' = loc.branch)

C4_MergeOnlyWhenClean ==
  pc \in {"finish.checkout", "finish.merge", "finalize.checkout_master",
          "finalize.merge_master", "finalize.checkout_develop",
          "finalize.merge_develop"}
    => tree = "clean"

C4_DirtyFinishRefused ==
  /\ \/ Failed("feature.finish", "finish.requireClean")
     \/ Failed("release.finish", "release.finish")
  /\ tree = "dirty"
  /\ log = << >>

\* the stage of release/hotfix finish a backend action belongs to
Rank(a) ==
  CASE a.op = "checkout" /\ a.arg = masterBranch -> 1
    [] a.op = "merge" /\ a.arg = masterBranch -> 1
    [] a.op = "tag" -> 2
    [] a.op = "checkout" /\ a.arg = developBranch -> 3
    [] a.op = "merge" /\ a.arg = developBranch -> 3
    [] a.op = "branch -d" -> 4
    [] a.op \in {"push", "push --tags", "push :"} -> 5
    [] OTHER -> 0

\* C5: release/hotfix finish issues its backend actions in the order merge
\* into production, tag, merge into development, local delete, pushes; the
\* tag is made with the branch merged into production, development is
\* checked out with the tag made, the branch is deleted when it is merged into
\* development, and the pushes start when it is gone.
C5_FinishOrder ==
  fn \in FinalizeFns =>
    /\ \A i, j \in DOMAIN log : i < j => Rank(log[i]) <= Rank(log[j])
    /\ \A i \in DOMAIN log : Rank(log[i]) > 0
    /\ pc = "finalize.tag" => tips[loc.branch] \subseteq tips[masterBranch]
    /\ pc = "finalize.checkout_develop" => release_name(loc.branch, loc.prefix) \in DOMAIN tags
    /\ pc = "finalize.branch_d" => tips[loc.branch] \subseteq tips[developBranch]
    /\ pc \in {"finalize.push_develop", "finalize.push_master",
               "finalize.remote_branch_exists", "finalize.push_delete"}
         => loc.branch \notin branches

C5_AllStages ==
  /\ fn \in FinalizeFns
  /\ pc = "finalize.push_delete"
  /\ \E i, j \in DOMAIN log :
       /\ log[i] = Act("merge", masterBranch)
       /\ log[j] = Act("merge", developBranch)

\* C6: at most one backend process is in flight at any time.
C6_OneAtATime == Inflight <= 1

\* C7: a rebase that exited non-zero is aborted before the failure is
\* reported: no rebase is in progress when the error shows.
C7_RebaseAborted == Failed("feature.rebase", "rebase.rebase") => tree # "rebasing"

\* C8: an invocation that ends because the operator declined or cancelled a
\* prompt has executed no mutating backend action.
C8_DeclineBeforeMutation == last.how = "cancelled" => last.log = << >>

\* the branch release/hotfix start forks from
ForkBranch == IF fn = "release.start" THEN developBranch ELSE masterBranch

\* C9: release/hotfix start issues checkout -b only with a clean tree and the
\* branch it forks from at the revision of its counterpart on origin.
C9_StartPreconditions ==
  pc \in {"release.start.checkout", "hotfix.start.checkout"} =>
    /\ isClean
    /\ exists(remoteAt(ForkBranch, primaryRemote))
         => ref(ForkBranch) = ref(remoteAt(ForkBranch, primaryRemote))

BranchesOfKind(kind) == {b \in branches : startsWith(b, prefix(kind))}

\* C10: there is at most one local branch with the release prefix and at
\* most one with the hotfix prefix.
C10_AtMostOne ==
  \A kind \in {"release", "hotfix"} :
    Truthy(prefix(kind)) => Cardinality(BranchesOfKind(kind)) <= 1

C10_SecondRefused ==
  /\ Failed("release.start", "release.start")
  /\ flowEnabled
  /\ BranchesOfKind("release") # {}
  /\ prefix("release") \o loc.name \notin branches
  /\ loc.name \notin DOMAIN tags

\* C11: initialize writes the production and development names last:
\* flowEnabled() turns true only with the last configuration write, so it is
\* false while an initialize of a repository without flow runs and when it
\* ends early, and it is true when initialize completes; on a repository
\* without commits the completed initialize has made the initial commit and
\* a development branch at the revision of production.
InitializeStep ==
  /\ (~flowEnabled /\ flowEnabled')
       => (fn = "initialize" /\ pc = "init.develop_set" /\ pc' = "init.assert")
  /\ (fn = "initialize" /\ pc = "init.assert")
       => /\ flowEnabled
          /\ "commit" \in Ops(log)
               => /\ developBranch \in branches
                  /\ tips[developBranch] = tips[masterBranch]

C11_RolesWrittenLast == [][InitializeStep]_vars

C11_Initialized ==
  /\ fn = "initialize"
  /\ pc = "init.assert"
  /\ {"commit", "branch"} \subseteq Ops(log)
  /\ masterBranch = default_production
  /\ developBranch = default_development

\* C12: initialize refuses equal production and development names before it
\* has issued any backend action, so whenever flow is enabled the two
\* configured names differ.
C12_NamesDiffer ==
  /\ flowEnabled => masterBranch # developBranch
  /\ Failed("initialize", "init.develop_prompt") => log = << >>

C12_EqualNamesRejected ==
  /\ Failed("initialize", "init.develop_prompt")
  /\ loc.master_name = default_production
  /\ gitconfig = NoConfig
  /\ log = << >>

\* C13: the flow configuration changes only in steps of initialize; every
\* step of every other operation, handler and background process leaves all
\* its keys as they are.
ConfigStep == gitconfig' # gitconfig => fn = "initialize"

C13_ConfigOnlyByInitialize == [][ConfigStep]_vars

C13_OtherOperationRan ==
  /\ last.fn \in {"feature.start", "release.start", "hotfix.start"}
  /\ last.how = "returned"
  /\ last.log # << >>
  /\ gitconfig = DefaultConfig

\* branch b has a counterpart on origin at another revision
RemoteDiffers(b) ==
  /\ b \in branches
  /\ b \in remoteBranches
  /\ rtips[b] # tips[b]

\* the checkout of development and the merge of feature/bugfix finish run
\* only with the subject branch and development at the revisions of their
\* counterparts on origin
NoMergeWhenRemoteDiffers ==
  (fn = "feature.finish" /\ pc \in {"finish.checkout", "finish.merge"})
    => (~RemoteDiffers(loc.branch) /\ ~RemoteDiffers(developBranch))

\* C14 as stated: feature/bugfix finish neither checks out development nor
\* merges when the subject branch or development differs from its counterpart
\* on origin, and a finish invoked in such a state fails with an error that
\* offers a pull.
C14_DivergedOffersPull ==
  /\ NoMergeWhenRemoteDiffers
  /\ (/\ fn = "feature.finish"
      /\ pc = "showErrorMessage"
      /\ OnBranchOfKind(loc.branchType)
      /\ RemoteDiffers(currentBranch) \/ RemoteDiffers(developBranch))
     => err.handler = "pull"

\* C14 amended: feature/bugfix finish neither checks out development nor
\* merges in such a state; a finish that comes to its remote checks, which
\* it does with a clean tree, fails there with an error that offers a pull,
\* before it has issued any backend action.
C14_NoMergeWhenDiverged ==
  /\ NoMergeWhenRemoteDiffers
  /\ (Failed("feature.finish", "finish.requireClean") /\ isClean)
       => /\ err.handler = "pull"
          /\ log = << >>
          /\ RemoteDiffers(currentBranch) \/ RemoteDiffers(developBranch)

C14_PullOffered ==
  /\ Failed("feature.finish", "finish.requireClean")
  /\ isClean
  /\ err.handler = "pull"
  /\ RemoteDiffers(developBranch)

\* a feature/bugfix finish that went through its merge returns in this step
FinishReturns ==
  /\ fn = "feature.finish"
  /\ last'.fn = "feature.finish"
  /\ last'.how = "returned"
  /\ "merge" \in Ops(log)

\* the merge of feature/bugfix finish, when it exits zero, has put the
\* subject branch into development, checked out, with a merge commit of its
\* own unless there was nothing to merge
FinishMergeStep ==
  (fn = "feature.finish" /\ pc = "finish.merge" /\ pc' = "cleanup.asserts")
    => /\ head' = developBranch
       /\ tips[loc.branch] \subseteq tips'[developBranch]
       /\ ~(tips[loc.branch] \subseteq tips[developBranch])
            => tips'[developBranch]
                 = tips[developBranch] \cup tips[loc.branch] \cup {nextId}

\* C15 as stated: a feature finish that passes its checks merges the branch
\* into development without fast-forward, deletes the branch, and ends with
\* no marker and development checked out.
FinishDeletesStep ==
  /\ FinishMergeStep
  /\ FinishReturns
       => /\ loc.branch \notin DOMAIN tips'
          /\ head' = developBranch
          /\ MERGE_BASE' = Null

C15_FinishDeletes == [][FinishDeletesStep]_vars

\* C15 amended: it deletes the branch when the setting deleteBranchOnFinish
\* is on, and keeps it when the setting is off.
FinishClosesStep ==
  /\ FinishMergeStep
  /\ FinishReturns
       => /\ loc.branch \notin DOMAIN tips' <=> deleteBranchOnFinish
          /\ head' = developBranch
          /\ tree' = "clean"
          /\ MERGE_BASE' = Null

C15_FinishCloses == [][FinishClosesStep]_vars

C15_Finished ==
  /\ last.fn = "feature.finish"
  /\ last.how = "returned"
  /\ {"merge", "branch -d"} \subseteq Ops(last.log)
  /\ head = developBranch
  /\ nextId > 3

\* a branch of that name is there, locally or among the listed remote ones
BranchNamed(name) ==
  \/ name \in branches
  \/ \E b \in remoteBranches : remoteAt(b, primaryRemote) = name

\* C16: feature/bugfix start with a name N creates and checks out prefix+N
\* from development when flow is enabled (the kind's prefix being set) and no
\* branch of that name exists; when flow is not enabled or the branch exists
\* it fails, and nothing is created or checked out.
FeatureStartStep ==
  /\ (fn = "feature.start" /\ pc = "feature.start" /\ pc' # pc)
       => IF /\ flowEnabled
             /\ Truthy(prefix(loc.branchType))
             /\ ~BranchNamed(prefix(loc.branchType) \o loc.name)
            THEN /\ pc' = "feature.start.checkout"
                 /\ log' = <<Act("checkout -b", prefix(loc.branchType) \o loc.name)>>
                 /\ loc'.branch = prefix(loc.branchType) \o loc.name
            ELSE /\ pc' = "showErrorMessage"
                 /\ log' = << >>
                 /\ UNCHANGED <<repoVars, gitconfig, fsVars>>
  /\ (fn = "feature.start" /\ pc = "feature.start.checkout" /\ pc' # pc)
       => IF pc' = "showErrorMessage"
            THEN UNCHANGED <<repoVars, gitconfig, fsVars>>
            ELSE /\ last'.how = "returned"
                 /\ head' = prefix(loc.branchType) \o loc.name
                 /\ tips' = SetTip(tips, head', tips[developBranch])
                 /\ head' \notin branches
                 /\ UNCHANGED <<tree, gitconfig, fsVars>>

C16_StartCreatesBranch == [][FeatureStartStep]_vars

C16_Started ==
  /\ last.fn = "feature.start"
  /\ last.how = "returned"
  /\ last.log = <<Act("checkout -b", head)>>
  /\ head \in {DefaultPrefix(t) \o n : t \in BranchTypes, n \in FeatureNames}
  /\ tips[head] = tips[developBranch]

\* the tag name release/hotfix finish is to use for the subject branch
ExpectedTag ==
  LET versiontag == gitconfig["prefix.versiontag"]
      kind == IF fn = "release.finish" THEN "prefix.release" ELSE "prefix.hotfix"
  IN (IF versiontag \in {Null, Empty} THEN Empty ELSE versiontag)
       \o SubSeq(loc.branch, Len(gitconfig[kind]) + 1, Len(loc.branch))

\* C17: release/hotfix finish creates, once the subject is merged into
\* production, an annotated tag on production named by the version tag
\* prefix (empty if unset) followed by the subject's name without its kind
\* prefix, carrying the operator's message.
FinalizeTagStep ==
  (fn \in FinalizeFns /\ pc = "finalize.tag" /\ pc' = "finalize.checkout_develop")
    => /\ tips[loc.branch] \subseteq tips[masterBranch]
       /\ ExpectedTag \notin DOMAIN tags
       /\ DOMAIN tags' = DOMAIN tags \cup {ExpectedTag}
       /\ tags'[ExpectedTag] = [message |-> loc.tag_message, target |-> tips[masterBranch]]
       /\ \A t \in DOMAIN tags : tags'[t] = tags[t]
       /\ loc.tag_message \in TagMessageInputs \ {Null}

C17_TagOnProduction == [][FinalizeTagStep]_vars

C17_Tagged ==
  /\ fn \in FinalizeFns
  /\ pc = "finalize.checkout_develop"
  /\ <<"v", "1">> \in DOMAIN tags
  /\ tags[<<"v", "1">>] = [message |-> <<"t">>, target |-> tips[masterBranch]]
  /\ loc.branch \in {DefaultPrefix("release") \o <<"1">>, DefaultPrefix("hotfix") \o <<"1">>}

\* the remediation the operator chose has been performed in this step
RemediationDone(handler) ==
  CASE handler = "init" ->
         /\ fn = "initialize"
         /\ cmd # "initialize"
         /\ last'.fn = "initialize"
         /\ last'.how = "returned"
    [] handler = "pull" ->
         /\ pc = "showErrorMessage"
         /\ err.handler = "pull"
         /\ last'.how = "handled"
    [] handler = "checkout" ->
         /\ fn = "cb"
         /\ pc = "cb.checkout"
         /\ last'.how = "returned"

\* the entry point that failed is invoked again
Reentered ==
  /\ cmd' = cmd
  /\ stage' = stage
  /\ pc' = Stages(cmd)[stage]
  /\ fn' = FnOf(Stages(cmd)[stage])

\* the command goes on after the entry point that failed
MovedOn ==
  /\ cmd' = cmd
  /\ IF stage < Len(Stages(cmd))
       THEN stage' = stage + 1 /\ pc' = Stages(cmd)[stage + 1]
       ELSE stage' = 0 /\ pc' = "done"

\* C18 as stated: after every remediation ('Enable now'/'Initialize',
\* 'Pull now', 'Checkout ... and continue') the top-level handler invokes
\* the original entry point of the failed operation again.
ReenterStep ==
  \A handler \in {"init", "pull", "checkout"} : RemediationDone(handler) => Reentered

RemediationStep ==
  /\ RemediationDone("checkout") => Reentered
  /\ \A handler \in {"init", "pull"} : RemediationDone(handler) => MovedOn /\ ~Reentered

PushTagsFailed ==
  /\ PushTagsProc \in bg
  /\ PushTagsProc \notin bg'
  /\ ~(DOMAIN tags \subseteq rtags)
  /\ rtags' = rtags

\* C19: a non-zero exit of a required backend call is fatal to the operation
\* and never swallowed: the failure reaches the top-level handler, which
\* reports it, and the operation executes no backend action after it.
RequiredCallStep ==
  /\ PushTagsFailed => pc' = "showErrorMessage" /\ log' = log
  /\ (pc = "showErrorMessage" /\ pc' = pc) => log' = log

C19_FailureIsFatal == [][RequiredCallStep]_vars

\* the values of a sequence, in the order of their first occurrence
RECURSIVE FirstSeen(_)
FirstSeen(names) ==
  IF names = << >> THEN << >>
  ELSE LET rest == FirstSeen(SubSeq(names, 1, Len(names) - 1))
           final == names[Len(names)]
       IN IF \E i \in DOMAIN rest : rest[i] = final THEN rest ELSE Append(rest, final)

\* C20: for every input listing, repeated lines included, the output of
\* BranchRef.parseListing and of TagRef.parseListing has each name at most
\* once, in first-seen order.
C20_UniqueFirstSeen ==
  pc = "parsed"
    => /\ \A i, j \in DOMAIN refs : refs[i] = refs[j] => i = j
       /\ FirstSeen(refs) = refs

\* C21: for every input listing, no name in the output of
\* BranchRef.parseListing is the 'no branch' sentinel and none begins with
\* the current-branch glyph '* ', whatever whitespace surrounds the lines.
C21_NoSentinelNoGlyph ==
  (pc = "parsed" /\ fn = "BranchRef.parseListing")
    => \A i \in DOMAIN refs :
         /\ refs[i] # NoBranch
         /\ ~startsWith(refs[i], <<"*", " ">>)

\* development and its remote counterpart both resolve
BothResolve == developBranch \in branches /\ developBranch \in remoteBranches

\* C22: requireEqual(a, b) never fails when a and b resolve to the same
\* revision and always fails when they resolve to different ones; the
\* failure carries 'Pull now' exactly when offer_pull is set. Checked where
\* the pre-checks call it: feature.precheck sets offer_pull, release.precheck
\* does not.
RequireEqualStep ==
  /\ (pc = "feature.precheck" /\ pc' # pc /\ BothResolve)
       => IF tips[developBranch] = rtips[developBranch]
            THEN pc' # "showErrorMessage"
            ELSE pc' = "showErrorMessage" /\ err'.handler = "pull"
  /\ (pc = "release.precheck" /\ pc' # pc /\ BothResolve /\ tree = "clean")
       => IF tips[developBranch] = rtips[developBranch]
            THEN pc' # "showErrorMessage"
            ELSE pc' = "showErrorMessage" /\ err'.handler = "none"

C22_RequireEqual == [][RequireEqualStep]_vars

C22_FailedWithoutOffer ==
  /\ Failed("release.precheck", "release.precheck")
  /\ tree = "clean"
  /\ BothResolve
  /\ tips[developBranch] # rtips[developBranch]
  /\ err.handler = "none"

\* the latest tag without the configured prefix in front of it
Remainder ==
  LET latest == IF stdout = << >> THEN DefaultVersion ELSE stdout[1]
      versiontag == gitconfig["prefix.versiontag"]
  IN IF versiontag \notin {Null, Empty} /\ startsWith(latest, versiontag)
       THEN SubSeq(latest, Len(versiontag) + 1, Len(latest))
       ELSE latest

\* major.minor.patch, read as three numbers
VersionOf(s) ==
  LET parts == split(s)
  IN <<ToNumber(parts[1]), ToNumber(parts[2]), ToNumber(parts[3])>>

\* C23: version guessing takes the latest tag (0.0.0 if there is none),
\* strips the configured tag prefix, and if the remainder is
\* major.minor.patch returns major.(minor+1).0 for a release and
\* major.minor.(patch+1) for a hotfix; any other remainder is returned
\* unchanged.
C23_Guess ==
  pc = "guessed"
    => IF matchVersion(Remainder)
         THEN /\ matchVersion(loc.name)
              /\ VersionOf(loc.name)
                   = IF fn = "release.guess_new_version"
                       THEN <<VersionOf(Remainder)[1], VersionOf(Remainder)[2] + 1, 0>>
                       ELSE <<VersionOf(Remainder)[1], VersionOf(Remainder)[2],
                              VersionOf(Remainder)[3] + 1>>
         ELSE loc.name = Remainder

\* C24: with a Recovery Marker present and a dirty working tree, a
\* feature/bugfix finish fails with the unresolved-merge-conflicts error,
\* leaves the marker in place and performs no checkout, merge or deletion.
C24_ConflictsReported ==
  (fn = "feature.finish" /\ last.fn = "feature.finish" /\ last.how = "threw"
   /\ merge_base_file_exists /\ ~isClean)
    => /\ pc = "showErrorMessage"
       /\ err = [handler |-> "none", a |-> MergeConflicts]
       /\ log = << >>

\* the kind an operation is for, and the operations' first steps
KindOf ==
  CASE fn \in {"feature.start", "feature.rebase", "feature.finish"} -> loc.branchType
    [] fn \in {"release.start", "release.finish"} -> "release"
    [] fn \in {"hotfix.start", "hotfix.finish"} -> "hotfix"

WorkflowOperations ==
  {"feature.start", "feature.rebase", "feature.finish", "release.start",
   "release.finish", "hotfix.start", "hotfix.finish"}

PrefixSet(kind) == gitconfig["prefix." \o kind] \notin {Null, Empty}

\* the local branches are the two role branches and branches named by a
\* configured prefix followed by a name
ComposedFromPrefix(b) ==
  \/ b \in {default_production, default_development}
  \/ \E kind \in {"feature", "bugfix", "release", "hotfix"} :
       /\ DefaultPrefix(kind) # Null
       /\ startsWith(b, DefaultPrefix(kind))
       /\ Len(b) > Len(DefaultPrefix(kind))

\* C25: a workflow operation for a kind whose prefix is unset fails at once
\* with the not-initialized error and without a backend mutation; no branch
\* name is ever composed from an empty or undefined prefix.
UnsetPrefixStep ==
  /\ (fn \in WorkflowOperations /\ pc = fn /\ pc' # pc /\ ~PrefixSet(KindOf))
       => /\ pc' = "showErrorMessage"
          /\ err'.handler = "init"
          /\ log' = << >>
          /\ UNCHANGED <<repoVars, gitconfig, fsVars>>
  /\ \A b \in DOMAIN tips' : ComposedFromPrefix(b)
  /\ \A i \in DOMAIN log' :
       log'[i].op = "checkout -b" => ComposedFromPrefix(log'[i].arg)

ProductionMergeFailed ==
  /\ fn \in FinalizeFns
  /\ pc = "finalize.merge_master"
  /\ pc' # pc
  /\ ~(tips[loc.branch] \subseteq tips'[masterBranch])

\* C26: when release/hotfix finish fails while merging the subject into
\* production, the operation stops there: the subject branch still exists,
\* no tag has been created, development has not been checked out or merged
\* into, and nothing has been pushed or deleted on the remote.
ProductionMergeStep ==
  /\ ProductionMergeFailed
       => /\ pc' = "showErrorMessage"
          /\ err'.handler = "none"
          /\ log' = <<Act("checkout", masterBranch), Act("merge", masterBranch)>>
          /\ loc.branch \in DOMAIN tips'
          /\ tips' = tips
          /\ head' = masterBranch
          /\ UNCHANGED <<tags, rtags, rtips, bg>>
  /\ (fn \in FinalizeFns /\ pc = "showErrorMessage" /\ last.at = "finalize.merge_master"
      /\ pc' # pc)
       => pc' = "done" /\ UNCHANGED repoVars

C26_StopsAtProductionMerge == [][ProductionMergeStep]_vars

C26_StoppedAtProduction ==
  /\ \E f \in FinalizeFns : Failed(f, "finalize.merge_master")
  /\ loc.branch \in branches
  /\ ~(tips[loc.branch] \subseteq tips[masterBranch])
  /\ ~(tips[loc.branch] \subseteq tips[developBranch])
  /\ tags = NoTags
  /\ head = masterBranch
  /\ bg = {}

\* C27: release start and hotfix start fail, and create no branch, when the
\* proposed name is the name of an existing tag.
ExistingTagStep ==
  (fn \in {"release.start", "hotfix.start"} /\ pc = fn /\ pc' # pc
   /\ loc.name \in DOMAIN tags)
    => /\ pc' = "showErrorMessage"
       /\ log' = << >>
       /\ UNCHANGED repoVars

C27_ExistingTagRefused == [][ExistingTagStep]_vars

\* initialize returns having run to its end
InitializeCompletes == fn = "initialize" /\ pc = "init.assert" /\ pc' # pc

\* C28 as stated: whenever initialize runs to completion the development
\* branch exists and is checked out, whether initialize created it or it
\* existed already.
DevelopCheckedOutStep ==
  InitializeCompletes => developBranch \in branches /\ head = developBranch

C28_DevelopCheckedOut == [][DevelopCheckedOutStep]_vars

\* C28 amended: the development branch exists; it is checked out when
\* initialize had to create it, and when it existed already initialize has
\* checked out nothing.
DevelopExistsStep ==
  /\ (fn = "initialize" /\ pc = "init.checkout" /\ pc' = "init.prefix_prompt")
       => loc.develop_name \in DOMAIN tips' /\ head' = loc.develop_name
  /\ InitializeCompletes
       => /\ developBranch \in branches
          /\ last'.how = "returned"
          /\ IF "branch" \in Ops(log)
               THEN head = developBranch
               ELSE "checkout" \notin Ops(log)

C28_DevelopExists == [][DevelopExistsStep]_vars

C28_LeftOnProduction ==
  /\ last.fn = "initialize"
  /\ last.how = "returned"
  /\ last.at = "init.assert"
  /\ "branch" \notin Ops(last.log)
  /\ developBranch \in branches
  /\ head = masterBranch

\* both roles are configured
RolesConfigured ==
  /\ gitconfig["branch.master"] \notin {Null, Empty}
  /\ gitconfig["branch.develop"] \notin {Null, Empty}

\* C29: when flow is already enabled initialize asks before it goes on, and
\* when the operator does not confirm it returns with the Flow
\* Configuration, the branches, the checked-out branch and the working tree
\* unchanged.
ReinitStep ==
  /\ (fn = "initialize" /\ pc = "init.flowEnabled" /\ pc' # pc /\ RolesConfigured)
       => /\ pc' = "init.reinit_prompt"
          /\ log' = << >>
          /\ UNCHANGED <<repoVars, gitconfig, fsVars>>
  /\ (fn = "initialize" /\ pc = "init.reinit_prompt" /\ pc' # pc)
       => /\ log = << >>
          /\ UNCHANGED <<repoVars, gitconfig, fsVars>>
          /\ \/ pc' = "init.master_prompt"
             \/ last'.how = "cancelled" /\ last'.log = << >>

C29_DeclinedReinit == [][ReinitStep]_vars

C29_Declined ==
  /\ last.fn = "initialize"
  /\ last.how = "cancelled"
  /\ last.at = "init.reinit_prompt"
  /\ last.log = << >>
  /\ gitconfig = DefaultConfig
  /\ tips = InitialTips
  /\ head = default_development
  /\ tree = "clean"

\* a release/hotfix finish returns normally in this step
FinishCompletes == fn \in FinalizeFns /\ pc # "done" /\ last'.how = "returned"

\* local and remote deletion are both switched on
RemoteDeletionEnabled == deleteBranchOnFinish /\ deleteRemoteBranches

\* origin has a counterpart of production and of development
CounterpartsPresent ==
  /\ masterBranch \in remoteBranches
  /\ developBranch \in remoteBranches

\* C30: when a release/hotfix finish completes with remote deletion enabled
\* and origin holds production and development, origin's production and
\* development are at the local tips, every tag is on origin and origin no
\* longer has the subject branch; with remote deletion disabled the finish
\* pushes nothing and deletes no remote branch.
RemoteStep ==
  FinishCompletes =>
    IF RemoteDeletionEnabled
      THEN CounterpartsPresent =>
             /\ rtips'[masterBranch] = tips'[masterBranch]
             /\ rtips'[developBranch] = tips'[developBranch]
             /\ DOMAIN tags' \subseteq rtags'
             /\ loc.branch \notin remoteBranches'
      ELSE Ops(last'.log) \cap {"push", "push --tags", "push :"} = {}

C30_RemoteUpdated == [][RemoteStep]_vars

\* the pull started by 'Pull now' for branch p.name exits in this step
PullEnds(p) == p \in bg /\ p.kind = "pull" /\ p \notin bg'

\* C31: the pull that 'Pull now' starts for branch a changes no local branch
\* other than a, whichever branch is checked out, and what it brings in from
\* origin ends up in a.
PullNowStep ==
  \A p \in bg :
    PullEnds(p) =>
      /\ \A b \in branches : b # p.name => tips'[b] = tips[b]
      /\ (tips' # tips /\ p.name \in remoteBranches)
           => rtips[p.name] \subseteq tips'[p.name]

C31_PullUpdatesA == [][PullNowStep]_vars

FinishEntries == {"release.finish", "hotfix.finish"}

\* the branch release/hotfix finish is about to finish
Subject == current(loc.branchType)

\* C32: release/hotfix finish goes past its checks only with the subject
\* checked out, the tree clean and production and development equal to their
\* remote counterparts, and issues no backend action before that; with
\* another branch checked out or HEAD detached it fails with nothing done;
\* 'Checkout ... and continue' checks the subject out and starts finish again
\* at its entry, in front of all these checks.
SubjectChecked ==
  /\ head = loc'.branch
  /\ loc'.branch = Subject
  /\ tree = "clean"
  /\ \A b \in {masterBranch, developBranch} :
       b \in remoteBranches => tips[b] = rtips[b]

CheckedOutStep ==
  /\ (fn \in FinalizeFns /\ pc \in FinishEntries /\ pc' # pc)
       => /\ log = << >>
          /\ UNCHANGED repoVars
          /\ pc' \in {"finalize.tag_message", "showErrorMessage"}
          /\ pc' = "finalize.tag_message" => SubjectChecked /\ log' = << >>
          /\ (flowEnabled /\ ~NotInitialized(loc.branchType)
                /\ Subject # Null /\ head # Subject)
               => /\ pc' = "showErrorMessage"
                  /\ last'.log = << >>
                  /\ err'.handler = IF head = Detached THEN "none" ELSE "checkout"
                  /\ head # Detached => err'.a = Subject
  /\ (fn \in FinalizeFns /\ fn' = fn /\ log = << >> /\ log' # << >>)
       => pc = "finalize.tag_message"
  /\ (fn = "cb" /\ pc = "cb.checkout" /\ pc' # "showErrorMessage" /\ pc' # pc)
       => /\ head' = loc.branch
          /\ pc' \in FinishEntries
          /\ fn' \in FinalizeFns
          /\ log' = << >>

FinishSubject == IF pc \in FinishEntries THEN Subject ELSE loc.branch

\* the subject is already merged into production: an earlier finish merged
\* it, or the operator completed the merge that finish had to leave
MergedIntoProduction ==
  /\ FinishSubject \in branches
  /\ tips[FinishSubject] \subseteq tips[masterBranch]

\* C33: a release/hotfix finish interrupted after its first mutating step
\* can be resumed.  With the subject merged into production, a finish run
\* from the checked-out subject on a clean tree is not turned down by its
\* checks and does not fail at the tag it already made, and a finish that
\* returns from its last stages leaves the subject merged into production
\* and development and deleted.
FinishResumeStep ==
  /\ (fn \in FinalizeFns /\ pc \in FinishEntries /\ MergedIntoProduction
        /\ head = Subject /\ tree = "clean")
       => pc' # "showErrorMessage"
  /\ (fn \in FinalizeFns /\ pc = "finalize.tag" /\ MergedIntoProduction)
       => pc' # "showErrorMessage"
  /\ (fn \in FinalizeFns /\ last'.how = "returned"
        /\ pc \in {"finalize.branch_d", "finalize.remote_branch_exists",
                   "finalize.push_delete"})
       => /\ loc.branch \notin branches'
          /\ \A b \in {masterBranch, developBranch} : tips[loc.branch] \subseteq tips'[b]

C33_FinishResumes == [][FinishResumeStep]_vars

\* release/hotfix start returns in this step, having created its branch
StartSucceeds ==
  /\ pc \in {"release.start.checkout", "hotfix.start.checkout"}
  /\ last'.how = "returned"

\* C34: when release/hotfix start has accepted a name N, the tag finish will
\* create for the branch, the version tag prefix followed by N, does not
\* exist.
TagFreeStep == StartSucceeds => (tag_prefix \o loc.name) \notin DOMAIN tags

C34_TagFreeAtStart == [][TagFreeStep]_vars

\* the operations that check that the working tree is clean
CleanCheckedFns == {"feature.rebase", "feature.finish", "release.finish", "hotfix.finish"}

\* the running operation issues its first backend action in this step
FirstMutation ==
  /\ fn \in CleanCheckedFns
  /\ fn' = fn
  /\ log = << >>
  /\ log' # << >>

\* C35 as stated: the first mutating backend action of rebase and of every
\* finish is issued on a tree just found clean, straight from the checks:
\* the operation is not coming back from a prompt the operator was left with
\* after the cleanliness check.
NoPromptStep == FirstMutation => tree = "clean" /\ pc \notin Prompts

C35_NoPromptAfterCheck == [][NoPromptStep]_vars

\* C35 amended: that holds for feature/bugfix rebase and finish; release and
\* hotfix finish issue their first mutating action, the checkout of
\* production, on coming back from the tag message prompt, which they put
\* after the cleanliness check.
PromptAfterCheckStep ==
  FirstMutation =>
    IF fn \in FinalizeFns
      THEN pc = "finalize.tag_message" /\ log' = <<Act("checkout", masterBranch)>>
      ELSE tree = "clean" /\ pc \notin Prompts

C35_OnlyTagPromptAfterCheck == [][PromptAfterCheckStep]_vars

C35_CameFromTagPrompt ==
  /\ fn \in FinalizeFns
  /\ pc = "finalize.checkout_master"
  /\ log = <<Act("checkout", masterBranch)>>
  /\ loc.tag_message = <<"t">>

\* C36: in a repository that had no flow configuration, whatever initialize
\* invocations have run and however they ended, flow is enabled only with
\* the five kind prefixes set to non-empty strings and the version tag prefix
\* key written.
C36_EnabledMeansPrefixes ==
  (/\ gitconfig["branch.master"] \notin {Null, Empty}
   /\ gitconfig["branch.develop"] \notin {Null, Empty})
    => /\ \A i \in DOMAIN Whats : gitconfig["prefix." \o Whats[i]] \notin {Null, Empty}
       /\ gitconfig["prefix.versiontag"] # Null

C36_Reinitialized ==
  /\ last.fn = "initialize"
  /\ last.how = "cancelled"
  /\ last.at = "init.prefix_prompt"
  /\ flowEnabled
  /\ commandsLeft < MaxInitializes - 1

\* the name a line of the listing stands for
ListedName(line) ==
  IF fn = "BranchRef.parseListing" THEN stripGlyph(trim(line)) ELSE trim(line)

\* C37: every non-empty, non-sentinel name of the input listing is in the
\* output of BranchRef.parseListing and of TagRef.parseListing, whatever the
\* name is.
C37_NoNameDropped ==
  pc = "parsed"
    => \A i \in DOMAIN stdout :
         ListedName(stdout[i]) \notin {Empty, NoBranch}
           => \E j \in DOMAIN refs : refs[j] = ListedName(stdout[i])

\* the revision is contained in branch t
MergedInto(rev, t) == t \in branches /\ rev \subseteq tips[t]

\* the revision is merged into all the targets of the running finish
MergedIntoTargets(rev) ==
  IF fn \in FinalizeFns
    THEN MergedInto(rev, masterBranch) /\ MergedInto(rev, developBranch)
    ELSE MergedInto(rev, developBranch) \/ MergedInto(rev, loc.name)

\* C38: a branch disappears, from the repository or from origin, only with
\* its revision merged into all the targets of the finish that deletes it:
\* development (or the branch the Recovery Marker names) for a feature or
\* bugfix branch, production and development for a release or hotfix branch.
DeletionStep ==
  /\ \A b \in branches \ DOMAIN tips' : MergedIntoTargets(tips[b])
  /\ \A b \in remoteBranches \ DOMAIN rtips' : MergedIntoTargets(rtips[b])

C38_DeletesOnlyMerged == [][DeletionStep]_vars


\* C39: every command invocation terminates.  Provided each backend call and
\* each prompt returns, a command that is under way always gets back to the
\* idle editor: the chain error shown, handler chosen, callback run, error
\* shown again ... ends, whatever the operator chooses and whatever the
\* backend answers.
C39_CommandTerminates == Running ~> (pc = "idle")

\* the second link of a remediation chain: 'Checkout ... and continue' has
\* checked the subject out and re-entered finish, which is about to fail
\* again because development differs from its counterpart on origin
C39_ReenteredToFail ==
  /\ last.fn = "cb"
  /\ last.how = "returned"
  /\ pc \in FinishEntries
  /\ head = Subject
  /\ exists(remoteAt(developBranch, primaryRemote))
  /\ ~requireEqual(developBranch, remoteAt(developBranch, primaryRemote))

====
